---- MODULE Spec2Model ----
(***************************************************************************)
(* Block-height-versioned query engine of the consensource REST API.       *)
(* The database tables are sets of versioned rows written by the ledger    *)
(* ingestion process; the route handlers read them at one resolved head.   *)
(***************************************************************************)
EXTENDS Integers, Sequences, FiniteSets, TLC

\* ------------------------------------------------------------------ bounds
\* Number of blocks the ledger commits in a run.
MaxBlock == 3
\* Largest explicit head a caller sends; it lies beyond the tip until the last
\* block is committed.
MaxHead == MaxBlock

\* Pagination inputs: total_count in 0..MaxTotal, limit in 1..MaxLimit (or
\* absent), offset in 0..MaxOffset (or absent).
MaxTotal == 7
MaxLimit == 3
MaxOffset == 4
MaxWorkers == 3
MaxAssertions == 2
PoolSize == 2

\* ------------------------------------------------------- program constants
\* std::i64::MAX, the end_block_num of an open row (scaled to TLC's integers).
I64_MAX == 2147483647
DEFAULT_LIMIT == 100
DEFAULT_OFFSET == 0
\* SIMILARITY_THRESHOLD: f32 = 0.2, in hundredths.
SIMILARITY_THRESHOLD == 20

\* ------------------------------------------------------------ Option<T>
None == <<>>
Some(x) == <<x>>
IsSome(o) == Len(o) = 1
Unwrap(o) == o[1]
unwrap_or(o, d) == IF Len(o) = 1 THEN o[1] ELSE d

\* ------------------------------------------------------------ utilities
Min(a, b) == IF a < b THEN a ELSE b
Max(a, b) == IF a > b THEN a ELSE b
SeqSet(s) == {s[i] : i \in 1..Len(s)}
\* All orderings of a finite set, as sequences without repetition.
Orderings(S) ==
    {s \in [1..Cardinality(S) -> S] : \A i, j \in 1..Cardinality(S) : i # j => s[i] # s[j]}
\* Natural keys in ascending (byte-wise) order, as ORDER BY ... ASC compares them.
KeyOrder == <<"a1", "a2", "a3", "a4", "a5", "a6", "c1", "c2", "cb1", "f1", "f2", "s1", "sb1">>
KeyRank(k) == CHOOSE i \in 1..Len(KeyOrder) : KeyOrder[i] = k

\* ------------------------------------------------------------------ state
VARIABLES
    db,     \* the tables: blocks and the versioned tables
    req,    \* the request being served: parameters, position, partial results
    saved,  \* an earlier completed request and its response, kept for comparison
    pool,   \* the idle connections of the connection pool
    threads, \* the server's worker threads: each one's request and connection
    file    \* the content of the file consensource_factories.csv, if it exists

\* The process state that requests served side by side have in common.
server == <<pool, threads, file>>

vars == <<db, req, saved, pool, threads, file>>

Tables == {"organizations", "contacts", "authorizations", "addresses",
           "certificates", "standards", "standard_versions", "assertions"}

\* Maximum committed block number; 0 stands for "no block yet" only in guards.
Tip(d) == IF d.blocks = {} THEN 0 ELSE CHOOSE b \in d.blocks : \A c \in d.blocks : c <= b

\* ---------------------------------------------------------- row builders
NewOrganization(id, name, type, n) ==
    [organization_id |-> id, name |-> name, organization_type |-> type,
     start_block_num |-> n, end_block_num |-> I64_MAX]

NewAuthorization(org, key, n) ==
    [organization_id |-> org, public_key |-> key, role |-> "Admin",
     start_block_num |-> n, end_block_num |-> I64_MAX]

NewContact(org, name, n) ==
    [organization_id |-> org, name |-> name, language_code |-> "en",
     start_block_num |-> n, end_block_num |-> I64_MAX]

NewAddress(org, city, state, country, postal, n) ==
    [organization_id |-> org, city |-> city, state_province |-> state,
     country |-> country, postal_code |-> postal,
     text_searchable_address_col |-> {city, country} \cup SeqSet(state) \cup SeqSet(postal),
     start_block_num |-> n, end_block_num |-> I64_MAX]

NewStandard(id, org, name, n) ==
    [standard_id |-> id, organization_id |-> org, name |-> name,
     start_block_num |-> n, end_block_num |-> I64_MAX]

NewStandardVersion(id, version, date, n) ==
    [standard_id |-> id, version |-> version, approval_date |-> date,
     start_block_num |-> n, end_block_num |-> I64_MAX]

NewCertificate(id, cb, factory, std, n) ==
    [certificate_id |-> id, certifying_body_id |-> cb, factory_id |-> factory,
     standard_id |-> std, standard_version |-> "v1", valid_from |-> 1, valid_to |-> 2,
     start_block_num |-> n, end_block_num |-> I64_MAX]

NewAssertion(id, object, n) ==
    [assertion_id |-> id, object_id |-> object,
     start_block_num |-> n, end_block_num |-> I64_MAX]

\* Address::default(): every column empty.
AddressDefault ==
    [organization_id |-> "", city |-> "", state_province |-> None,
     country |-> "", postal_code |-> None]

\* ------------------------------------------------------------- the ledger
FactoryName(f) == IF f = "f1" THEN "acme mill" ELSE "bolt farm"
ContactName(f) == IF f = "f1" THEN "alice" ELSE "bob"
PublicKey(f) == IF f = "f1" THEN "key1" ELSE "key2"

\* create_test_factory: an organization with its authorization, address and contact.
CreateFactory(d, f, n) ==
    [d EXCEPT
       !.organizations = @ \cup {NewOrganization(f, FactoryName(f), "Factory", n)},
       !.authorizations = @ \cup {NewAuthorization(f, PublicKey(f), n)},
       !.addresses = @ \cup
           (IF f = "f1"
            THEN {NewAddress(f, "springfield", Some("il"), "us", Some("62701"), n)}
            ELSE {}),
       !.contacts = @ \cup {NewContact(f, ContactName(f), n)}]

\* create_test_std_and_cert: a certifying body, a standard and a certificate of f1.
CreateStdAndCert(d, n) ==
    [d EXCEPT
       !.organizations = @ \cup {NewOrganization("cb1", "auditco", "CertifyingBody", n)},
       !.standards = @ \cup {NewStandard("s1", "sb1", "gots", n)},
       !.standard_versions = @ \cup {NewStandardVersion("s1", "v1", 1, n)},
       !.certificates = @ \cup {NewCertificate("c1", "cb1", "f1", "s1", n)}]

\* A second certificate, of factory f2, against the same standard and body.
CreateCertificate(d, n) ==
    [d EXCEPT !.certificates = @ \cup {NewCertificate("c2", "cb1", "f2", "s1", n)}]

CreateAssertion(d, a, object, n) ==
    [d EXCEPT !.assertions = @ \cup {NewAssertion(a, object, n)}]

\* The open version (end_block_num = MAX) of the rows selected by Sel is closed
\* at block n: the fact is superseded from n on.
Close(rows, Sel(_), n) ==
    {IF Sel(r) /\ r.end_block_num = I64_MAX THEN [r EXCEPT !.end_block_num = n] ELSE r
       : r \in rows}

OpenRows(rows) == {r \in rows : r.end_block_num = I64_MAX}

\* A new version of an organization replaces the open one.
UpdateOrganization(d, id, name, n) ==
    LET old == CHOOSE r \in OpenRows(d.organizations) : r.organization_id = id
    IN [d EXCEPT !.organizations =
          Close(@, LAMBDA r : r.organization_id = id, n)
            \cup {NewOrganization(id, name, old.organization_type, n)}]

UpdateAddress(d, org, city, n) ==
    [d EXCEPT !.addresses =
          Close(@, LAMBDA r : r.organization_id = org, n)
            \cup {NewAddress(org, city, Some("il"), "us", Some("62701"), n)}]

DeleteOrganization(d, id, n) ==
    [d EXCEPT !.organizations = Close(@, LAMBDA r : r.organization_id = id, n)]

DeleteStandard(d, id, n) ==
    [d EXCEPT !.standards = Close(@, LAMBDA r : r.standard_id = id, n)]

DeleteCertificate(d, id, n) ==
    [d EXCEPT !.certificates = Close(@, LAMBDA r : r.certificate_id = id, n)]

HasOpen(rows, Sel(_)) == \E r \in rows : Sel(r) /\ r.end_block_num = I64_MAX
HasAny(rows, Sel(_)) == \E r \in rows : Sel(r)

\* The transactions block n may carry, given the tables before it.
Transactions(d) ==
    {[kind |-> "CreateFactory", id |-> f] :
        f \in {g \in {"f1", "f2"} :
                 ~HasAny(d.organizations, LAMBDA r : r.organization_id = g)}}
    \cup {[kind |-> "CreateStdAndCert", id |-> "c1"] :
        x \in {y \in {1} : ~HasAny(d.certificates, LAMBDA r : r.certificate_id = "c1")}}
    \cup {[kind |-> "CreateCertificate", id |-> "c2"] :
        x \in {y \in {1} :
                 /\ HasOpen(d.standards, LAMBDA r : r.standard_id = "s1")
                 /\ HasOpen(d.organizations, LAMBDA r : r.organization_id = "f2")
                 /\ ~HasAny(d.certificates, LAMBDA r : r.certificate_id = "c2")}}
    \cup {[kind |-> "CreateAssertion", id |-> a] :
        a \in {b \in {"a1", "a2"} :
                 /\ ~HasAny(d.assertions, LAMBDA r : r.assertion_id = b)
                 /\ IF b = "a1"
                    THEN HasOpen(d.organizations, LAMBDA r : r.organization_id = "f1")
                    ELSE HasOpen(d.certificates, LAMBDA r : r.certificate_id = "c1")}}
    \cup {[kind |-> "UpdateOrganization", id |-> o] :
        o \in {p \in {"f1"} :
                 \E r \in OpenRows(d.organizations) :
                    r.organization_id = p /\ r.name = FactoryName(p)}}
    \cup {[kind |-> "UpdateAddress", id |-> o] :
        o \in {p \in {"f1"} :
                 \E r \in OpenRows(d.addresses) :
                    r.organization_id = p /\ r.city = "springfield"}}
    \cup {[kind |-> "DeleteOrganization", id |-> o] :
        o \in {p \in {"f1", "cb1"} :
                 HasOpen(d.organizations, LAMBDA r : r.organization_id = p)}}
    \cup {[kind |-> "DeleteStandard", id |-> s] :
        s \in {t \in {"s1"} : HasOpen(d.standards, LAMBDA r : r.standard_id = t)}}
    \cup {[kind |-> "DeleteCertificate", id |-> c] :
        c \in {e \in {"c1"} : HasOpen(d.certificates, LAMBDA r : r.certificate_id = e)}}

AssertedObject(a) == IF a = "a1" THEN "f1" ELSE "c1"

Apply(d, tx, n) ==
    CASE tx.kind = "CreateFactory" -> CreateFactory(d, tx.id, n)
      [] tx.kind = "CreateStdAndCert" -> CreateStdAndCert(d, n)
      [] tx.kind = "CreateCertificate" -> CreateCertificate(d, n)
      [] tx.kind = "CreateAssertion" -> CreateAssertion(d, tx.id, AssertedObject(tx.id), n)
      [] tx.kind = "UpdateOrganization" -> UpdateOrganization(d, tx.id, "acme mill ltd", n)
      [] tx.kind = "UpdateAddress" -> UpdateAddress(d, tx.id, "shelbyville", n)
      [] tx.kind = "DeleteOrganization" -> DeleteOrganization(d, tx.id, n)
      [] tx.kind = "DeleteStandard" -> DeleteStandard(d, tx.id, n)
      [] tx.kind = "DeleteCertificate" -> DeleteCertificate(d, tx.id, n)

\* The ingestion process commits block Tip+1: the block row and the row changes
\* of its transaction become visible together.
CommitBlock(d, tx) ==
    LET n == Tip(d) + 1
    IN [Apply(d, tx, n) EXCEPT !.blocks = @ \cup {n}]

EmptyDb ==
    [blocks |-> {}, organizations |-> {}, contacts |-> {}, authorizations |-> {},
     addresses |-> {}, certificates |-> {}, standards |-> {}, standard_versions |-> {},
     assertions |-> {}]

\* ------------------------------------------------------------ text search
\* to_tsvector(text): the lexemes of a document.
to_tsvector(text) ==
    CASE text = "acme mill" -> {"acme", "mill"}
      [] text = "acme mill ltd" -> {"acme", "mill", "ltd"}
      [] text = "bolt farm" -> {"bolt", "farm"}
      [] OTHER -> {text}

\* plainto_tsquery(text): the lexemes of the query, all of which must occur.
plainto_tsquery(text) == to_tsvector(text)

\* tsvector @@ tsquery.
matches(vector, query) == query # {} /\ query \subseteq vector

\* similarity(x, y) of pg_trgm in hundredths; x is Nullable<Text> (an Option),
\* and a NULL argument gives NULL, shown as -1, which no comparison accepts.
similarity(x, y) ==
    IF ~IsSome(x) THEN -1
    ELSE CASE Unwrap(x) = y -> 100
           [] Unwrap(x) = "springfield" /\ y = "springfield_similar" -> 25
           [] Unwrap(x) = "springfield" /\ y = "sprat" -> 20
           [] Unwrap(x) = "springfield" /\ y = "totally_different" -> 5
           [] OTHER -> 0

\* Uri::percent_encode: a space becomes %20, unreserved characters stay.
percent_encode(text) ==
    CASE text = "acme mill" -> "acme%20mill"
      [] text = "acme mill ltd" -> "acme%20mill%20ltd"
      [] text = "bolt farm" -> "bolt%20farm"
      [] OTHER -> text

\* ------------------------------------------------------- versioned reads
\* The validity filter of a table that keeps only current rows.
valid_at_open_only(r, head) == r.start_block_num <= head /\ r.end_block_num = I64_MAX

\* The validity filter with the end boundary taken as inclusive.
valid_at_end_inclusive(r, head) == r.start_block_num <= head /\ r.end_block_num >= head

\* .filter(start_block_num.le(head)).filter(end_block_num.gt(head))
valid_at(r, head) == r.start_block_num <= head /\ r.end_block_num > head
AtHead(rows, head) == {r \in rows : valid_at(r, head)}

Ok(v) == [ok |-> TRUE, val |-> v]
Err(e) == [ok |-> FALSE, err |-> e]

\* paging::get_head_block_num: an explicit head verbatim, else the maximum
\* committed block_num; no block at all is an internal error.
get_head_block_num(head_param, d) ==
    IF IsSome(head_param) THEN Ok(Unwrap(head_param))
    ELSE IF d.blocks = {} THEN Err("InternalError")
    ELSE Ok(Tip(d))

\* The rows of a query in an order the database may return them: by the
\* ORDER BY key ascending, rows with equal keys in any order.
OrderedBy(rows, Key(_)) ==
    {s \in Orderings(rows) :
        \A i, j \in 1..Len(s) : i < j => KeyRank(Key(s[i])) <= KeyRank(Key(s[j]))}

\* .limit(limit).offset(offset)
Page(s, limit, offset) ==
    SubSeq(s, offset + 1, Min(Len(s), offset + limit))

\* A HashMap filled by insert(key, row), or .first(): one row per key survives.
OnePerKey(rows, Key(_)) ==
    {S \in SUBSET rows :
        \A r \in rows : Cardinality({x \in S : Key(x) = Key(r)}) = 1}

\* ------------------------------------------------------------ pagination
WithPage(link, limit, offset) ==
    [link EXCEPT !.query = @ \o << <<"limit", limit>>, <<"offset", offset>> >>]

\* paging::get_response_paging_info
get_response_paging_info(limit_param, offset_param, link, total_count) ==
    LET limit == unwrap_or(limit_param, DEFAULT_LIMIT)
        offset == unwrap_or(offset_param, DEFAULT_OFFSET)
        last_offset == IF total_count = 0 THEN 0
                       ELSE ((total_count - 1) \div limit) * limit
        next_offset == Min(offset + limit, last_offset)
        prev_offset == Max(offset - limit, 0)
    IN [link |-> WithPage(link, limit, offset),
        paging |-> [first |-> WithPage(link, limit, 0),
                    last |-> WithPage(link, limit, last_offset),
                    next |-> WithPage(link, limit, next_offset),
                    prev |-> WithPage(link, limit, prev_offset),
                    limit |-> limit,
                    offset |-> offset,
                    total |-> total_count]]

\* ------------------------------------------------------ response objects
ApiContact(c) == [name |-> c.name, language_code |-> c.language_code]
ApiAuthorization(a) == [public_key |-> a.public_key, role |-> a.role]
ApiAddress(a) ==
    [city |-> a.city, state_province |-> a.state_province, country |-> a.country,
     postal_code |-> a.postal_code]

\* impl From<(Certificate, Organization, Standard, Organization, Option<String>)>
ApiCertificate(certificate, factory, standard, auditor, assertion_id) ==
    [id |-> certificate.certificate_id,
     certifying_body_id |-> auditor.organization_id,
     certifying_body |-> auditor.name,
     factory_id |-> factory.organization_id,
     factory_name |-> factory.name,
     standard_id |-> certificate.standard_id,
     standard_name |-> standard.name,
     standard_version |-> certificate.standard_version,
     assertion_id |-> assertion_id]

\* ApiFactory::with_assertion: no certificates field.
ApiFactory_with_assertion(org, address, contacts, authorizations, assertion_id) ==
    [id |-> org.organization_id, name |-> org.name,
     contacts |-> {ApiContact(c) : c \in contacts},
     authorizations |-> {ApiAuthorization(a) : a \in authorizations},
     address |-> ApiAddress(address),
     certificates |-> None,
     organization_type |-> org.organization_type,
     assertion_id |-> assertion_id]

\* ApiFactory::with_certificate_expanded_and_assertion: each certificate goes
\* through From<(Certificate, Organization, Standard, Organization)>, which
\* sets no assertion_id on the certificate.
ApiFactory_with_certificate_expanded_and_assertion(
        org, address, contacts, authorizations, certs, assertion_id) ==
    [id |-> org.organization_id, name |-> org.name,
     contacts |-> {ApiContact(c) : c \in contacts},
     authorizations |-> {ApiAuthorization(a) : a \in authorizations},
     address |-> ApiAddress(address),
     certificates |-> Some({ApiCertificate(t.cert, org, t.std[1], t.org[1], None)
                              : t \in certs}),
     organization_type |-> org.organization_type,
     assertion_id |-> assertion_id]

\* ApiCertifyingBody::from and ApiStandardsBody::from
ApiBody(org, contacts, authorizations) ==
    [id |-> org.organization_id, name |-> org.name,
     contacts |-> {ApiContact(c) : c \in contacts},
     authorizations |-> {ApiAuthorization(a) : a \in authorizations},
     organization_type |-> org.organization_type]

ApiAssertion(a) == [assertion_id |-> a.assertion_id, object_id |-> a.object_id]

ApiStandard(standard, versions, assertion_id) ==
    [standard_id |-> standard.standard_id,
     organization_id |-> standard.organization_id,
     name |-> standard.name,
     versions |-> {[version |-> v.version, approval_date |-> v.approval_date]
                     : v \in versions},
     assertion_id |-> assertion_id]

\* ------------------------------------------------------------- requests
NoParams ==
    [name |-> None, search |-> None, city |-> None, state_province |-> None,
     country |-> None, postal_code |-> None, limit |-> None, offset |-> None,
     head |-> None, expand |-> None, organization_type |-> None,
     certifying_body_id |-> None, factory_id |-> None, organization_id |-> None]

\* A request as it enters its handler: nothing read yet. db0 and tip1 are not
\* state of the handler: they record the database the head was resolved
\* against and the chain tip at the latest round trip of the request.
Blank(op, id, params) ==
    [op |-> op, id |-> id, params |-> params, pc |-> "resolve",
     head_block_num |-> 0, key_sets |-> <<>>, total_count |-> 0,
     paging_info |-> None, primary |-> <<>>, contacts |-> {}, authorizations |-> {},
     addresses |-> {}, assertions |-> {}, certs |-> {}, factories |-> {},
     versions |-> {},
     status |-> "Pending", data |-> <<>>, head |-> None, link |-> None, paging |-> None,
     db0 |-> EmptyDb, tip1 |-> 0]

Idle == [Blank("none", "", NoParams) EXCEPT !.pc = "idle"]

ListOps == {"query_factories", "list_organizations", "list_certificates",
            "list_assertions", "list_standards_belonging_to_org"}
FetchOps == {"fetch_factory", "fetch_organization", "fetch_certificate",
             "fetch_assertions"}

\* ApiError returned by the handler: the request is over.
Fail(r, e) == [r EXCEPT !.status = e, !.pc = "done"]

\* ------------------------------------------------------------ left joins
OptRows(rows) == IF rows = {} THEN {None} ELSE {Some(r) : r \in rows}

\* certificates LEFT JOIN standards, organizations, assertions, each joined
\* table filtered to the head inside its ON clause.
JoinCertificates(d, head, certs) ==
    UNION {
      {[cert |-> c, std |-> s, org |-> o, assertion |-> a] :
          s \in OptRows({x \in AtHead(d.standards, head) : x.standard_id = c.standard_id}),
          o \in OptRows({x \in AtHead(d.organizations, head) :
                           x.organization_id = c.certifying_body_id}),
          a \in OptRows({x \in AtHead(d.assertions, head) :
                           x.object_id = c.certificate_id})}
      : c \in certs}

\* standards LEFT JOIN assertions
JoinStandards(d, head, stds) ==
    UNION {
      {[standard |-> s, assertion |-> a] :
          a \in OptRows({x \in AtHead(d.assertions, head) : x.object_id = s.standard_id})}
      : s \in stds}

assertion_id_of(a) == IF IsSome(a) THEN Some(Unwrap(a).assertion_id) ELSE None

\* ------------------------------------------------- factories.rs queries
\* The search key sets intersected: a match in all three is required.
search_org_ids_intersected(d, head, search) ==
    LET q == plainto_tsquery(search)
        matched_standards ==
            {s.standard_id : s \in {x \in AtHead(d.standards, head) :
                                      matches(to_tsvector(x.name), q)}}
        matched_cert_org_ids ==
            {c.factory_id : c \in {x \in AtHead(d.certificates, head) :
                                     x.standard_id \in matched_standards}}
        matched_address_org_ids ==
            {a.organization_id : a \in {x \in AtHead(d.addresses, head) :
                                          matches(x.text_searchable_address_col, q)}}
        matched_org_ids ==
            {o.organization_id : o \in {x \in AtHead(d.organizations, head) :
                                          matches(to_tsvector(x.name), q)}}
    IN matched_cert_org_ids \cap matched_address_org_ids \cap matched_org_ids

\* The search key sets with the address match run over every stored version.
search_org_ids_any_version(d, head, search) ==
    LET q == plainto_tsquery(search)
        matched_standards ==
            {s.standard_id : s \in {x \in AtHead(d.standards, head) :
                                      matches(to_tsvector(x.name), q)}}
        matched_cert_org_ids ==
            {c.factory_id : c \in {x \in AtHead(d.certificates, head) :
                                     x.standard_id \in matched_standards}}
        matched_address_org_ids ==
            {a.organization_id : a \in {x \in d.addresses :
                                          matches(x.text_searchable_address_col, q)}}
        matched_org_ids ==
            {o.organization_id : o \in {x \in AtHead(d.organizations, head) :
                                          matches(to_tsvector(x.name), q)}}
    IN matched_cert_org_ids \cup matched_address_org_ids \cup matched_org_ids

\* query_factories, `search`: the three key sets appended into one list.
search_org_ids(d, head, search) ==
    LET q == plainto_tsquery(search)
        matched_standards ==
            {s.standard_id : s \in {x \in AtHead(d.standards, head) :
                                      matches(to_tsvector(x.name), q)}}
        matched_cert_org_ids ==
            {c.factory_id : c \in {x \in AtHead(d.certificates, head) :
                                     x.standard_id \in matched_standards}}
        matched_address_org_ids ==
            {a.organization_id : a \in {x \in AtHead(d.addresses, head) :
                                          matches(x.text_searchable_address_col, q)}}
        matched_org_ids ==
            {o.organization_id : o \in {x \in AtHead(d.organizations, head) :
                                          matches(to_tsvector(x.name), q)}}
    IN matched_cert_org_ids \cup matched_address_org_ids \cup matched_org_ids

\* The comparison accepting a score equal to the threshold.
similar_enough_or_equal(score) == score >= SIMILARITY_THRESHOLD

\* .gt(SIMILARITY_THRESHOLD)
similar_enough(score) == score > SIMILARITY_THRESHOLD

\* query_factories, city / state_province / country / postal_code: the owners
\* of the addresses whose column is similar enough to the query string.
fuzzy_org_ids(d, head, Column(_), q) ==
    {a.organization_id : a \in {x \in AtHead(d.addresses, head) :
                                  similar_enough(similarity(Column(x), q))}}

\* The key set of every filter of the request, in the order the handler adds them.
factory_key_sets(d, head, p) ==
    (IF IsSome(p.search) THEN <<search_org_ids(d, head, Unwrap(p.search))>> ELSE <<>>)
    \o (IF IsSome(p.city)
        THEN <<fuzzy_org_ids(d, head, LAMBDA x : Some(x.city), Unwrap(p.city))>>
        ELSE <<>>)
    \o (IF IsSome(p.state_province)
        THEN <<fuzzy_org_ids(d, head, LAMBDA x : x.state_province,
                             Unwrap(p.state_province))>>
        ELSE <<>>)
    \o (IF IsSome(p.country)
        THEN <<fuzzy_org_ids(d, head, LAMBDA x : Some(x.country), Unwrap(p.country))>>
        ELSE <<>>)
    \o (IF IsSome(p.postal_code)
        THEN <<fuzzy_org_ids(d, head, LAMBDA x : x.postal_code, Unwrap(p.postal_code))>>
        ELSE <<>>)

\* factories_query joined to the certificates when the request expands: a
\* factory without a certificate at the head drops out.
factories_query_joined_when_expanding(d, head, p, ks) ==
    {o \in AtHead(d.organizations, head) :
        /\ o.organization_type = "Factory"
        /\ IsSome(p.name) => o.name = Unwrap(p.name)
        /\ \A i \in 1..Len(ks) : o.organization_id \in ks[i]
        /\ unwrap_or(p.expand, FALSE) =>
              \E c \in AtHead(d.certificates, head) : c.factory_id = o.organization_id}

\* factories_query before limit and offset.
factories_query(d, head, p, ks) ==
    {o \in AtHead(d.organizations, head) :
        /\ o.organization_type = "Factory"
        /\ IsSome(p.name) => o.name = Unwrap(p.name)
        /\ \A i \in 1..Len(ks) : o.organization_id \in ks[i]}

\* The count query of query_factories without the name filter.
factories_count_query_unfiltered(d, head, p, ks) ==
    {o \in d.organizations :
        /\ o.start_block_num <= head /\ o.end_block_num > head
        /\ o.organization_type = "Factory"
        /\ \A i \in 1..Len(ks) : o.organization_id \in ks[i]}

\* count_query of query_factories.
factories_count_query(d, head, p, ks) ==
    {o \in AtHead(d.organizations, head) :
        /\ o.organization_type = "Factory"
        /\ IsSome(p.name) => o.name = Unwrap(p.name)
        /\ \A i \in 1..Len(ks) : o.organization_id \in ks[i]}

\* query_certifications dropping the rows that lack a standard or a certifying
\* body (inner joins in place of the check).
query_certifications_omitting(d, head, factory_ids) ==
    [ok |-> TRUE,
     val |-> {t \in JoinCertificates(d, head,
                       {c \in d.certificates :
                           /\ c.start_block_num <= head /\ c.end_block_num > head
                           /\ c.factory_id \in factory_ids}) :
                t.std # <<>> /\ t.org # <<>>}]

\* query_certifications: the joined rows, or an internal error when a
\* certificate has no standard or no certifying body at the head.
query_certifications(d, head, factory_ids) ==
    LET rows == JoinCertificates(d, head,
                   {c \in AtHead(d.certificates, head) : c.factory_id \in factory_ids})
    IN IF \E t \in rows : t.std = None \/ t.org = None
       THEN Err("InternalError")
       ELSE Ok(rows)

\* fetch_factory_with_head_param: the rows .first() chooses from.
fetch_factory_query(d, head, id) ==
    {o \in AtHead(d.organizations, head) :
        o.organization_type = "Factory" /\ o.organization_id = id}

\* ---------------------------------------------- organizations.rs queries
org_type_of(n) == IF n = 1 THEN "CertifyingBody" ELSE "StandardsBody"

\* The organizations page query with .eq(head) on start_block_num.
organizations_query_started_at_head(d, head, p) ==
    {o \in d.organizations :
        /\ o.start_block_num = head /\ o.end_block_num > head
        /\ IsSome(p.name) => o.name = Unwrap(p.name)
        /\ IsSome(p.organization_type) =>
              o.organization_type = org_type_of(Unwrap(p.organization_type))}

organizations_query(d, head, p) ==
    {o \in AtHead(d.organizations, head) :
        /\ IsSome(p.name) => o.name = Unwrap(p.name)
        /\ IsSome(p.organization_type) =>
              o.organization_type = org_type_of(Unwrap(p.organization_type))}

organizations_count_query(d, head, p) ==
    {o \in AtHead(d.organizations, head) :
        /\ IsSome(p.name) => o.name = Unwrap(p.name)
        /\ IsSome(p.organization_type) =>
              o.organization_type = org_type_of(Unwrap(p.organization_type))}

fetch_organization_query(d, head, id) ==
    {o \in AtHead(d.organizations, head) : o.organization_id = id}

\* ----------------------------------------------- certificates.rs queries
certificate_query(d, head, p) ==
    JoinCertificates(d, head,
        {c \in AtHead(d.certificates, head) :
            /\ IsSome(p.certifying_body_id) =>
                  c.certifying_body_id = Unwrap(p.certifying_body_id)
            /\ IsSome(p.factory_id) => c.factory_id = Unwrap(p.factory_id)})

certificates_count_query(d, head, p) ==
    {c \in AtHead(d.certificates, head) :
        /\ IsSome(p.certifying_body_id) =>
              c.certifying_body_id = Unwrap(p.certifying_body_id)
        /\ IsSome(p.factory_id) => c.factory_id = Unwrap(p.factory_id)}

fetch_certificate_query(d, head, id) ==
    JoinCertificates(d, head,
        {c \in AtHead(d.certificates, head) : c.certificate_id = id})

\* require_org: the versions of the organization .first() chooses from.
require_org(d, head, org_id) ==
    {o \in AtHead(d.organizations, head) : o.organization_id = org_id}

\* ------------------------------------------------- assertions.rs queries
assertions_query(d, head) == AtHead(d.assertions, head)
assertions_count_query(d, head) == AtHead(d.assertions, head)
fetch_assertions_query(d, head, id) ==
    {a \in AtHead(d.assertions, head) : a.assertion_id = id}

\* --------------------------------------------- standards_body.rs queries
standards_results_query(d, head, p) ==
    JoinStandards(d, head,
        {s \in AtHead(d.standards, head) :
            s.organization_id = unwrap_or(p.organization_id, "")})

standards_count_query(d, head, p) ==
    {s \in AtHead(d.standards, head) :
        s.organization_id = unwrap_or(p.organization_id, "")}

\* ----------------------------------------------------- dependent queries
contacts_query(d, head, ids) ==
    {c \in AtHead(d.contacts, head) : c.organization_id \in ids}
authorizations_query(d, head, ids) ==
    {a \in AtHead(d.authorizations, head) : a.organization_id \in ids}
\* The address query filtering on the chain tip of its own round trip.
addresses_query_at_tip(d, head, ids) ==
    {a \in d.addresses :
        /\ a.start_block_num <= Tip(d) /\ a.end_block_num > Tip(d)
        /\ a.organization_id \in ids}
addresses_query(d, head, ids) ==
    {a \in AtHead(d.addresses, head) : a.organization_id \in ids}
object_assertions_query(d, head, ids) ==
    {a \in AtHead(d.assertions, head) : a.object_id \in ids}
standard_versions_query(d, head, ids) ==
    {v \in AtHead(d.standard_versions, head) : v.standard_id \in ids}

\* ------------------------------------------------------------ apply_paging
Link(path, query) == [path |-> path, query |-> query]
OptPair(key, o, Show(_)) == IF IsSome(o) THEN << <<key, Show(Unwrap(o))>> >> ELSE <<>>
ShowBool(b) == IF b THEN "true" ELSE "false"
ShowText(t) == t

\* factories.rs apply_paging
\* apply_paging of factories.rs with limit and offset passed in each other's place.
factories_apply_paging_swapped(p, head, total_count) ==
    get_response_paging_info(p.offset, p.limit, Link(<<"api", "factories">>, <<>>),
                             total_count)

factories_apply_paging(p, head, total_count) ==
    get_response_paging_info(p.limit, p.offset,
        Link(<<"api", "factories">>,
             OptPair("name", p.name, percent_encode)
               \o << <<"head", ToString(head)>> >>
               \o OptPair("expand", p.expand, ShowBool)),
        total_count)

\* apply_paging of organizations.rs leaving out prev on the first page.
organizations_apply_paging_no_prev_at_start(p, head, total_count) ==
    LET info == get_response_paging_info(p.limit, p.offset,
                    Link(<<"api", "organizations">>,
                         OptPair("name", p.name, percent_encode)
                           \o << <<"head", ToString(head)>> >>),
                    total_count)
        kept == IF info.paging.offset = 0
                THEN DOMAIN info.paging \ {"prev"}
                ELSE DOMAIN info.paging
    IN [link |-> info.link, paging |-> [k \in kept |-> info.paging[k]]]

\* organizations.rs apply_paging
organizations_apply_paging(p, head, total_count) ==
    get_response_paging_info(p.limit, p.offset,
        Link(<<"api", "organizations">>,
             OptPair("name", p.name, percent_encode)
               \o << <<"head", ToString(head)>> >>),
        total_count)

\* apply_paging of certificates.rs forgetting to pass the request's offset.
certificates_apply_paging_without_offset(p, head, total_count) ==
    get_response_paging_info(p.limit, None,
        Link(<<"api", "certificates">>,
             OptPair("certifying_body_id", p.certifying_body_id, ShowText)
               \o OptPair("factory_id", p.factory_id, ShowText)
               \o << <<"head", ToString(head)>> >>),
        total_count)

\* certificates.rs apply_paging
certificates_apply_paging(p, head, total_count) ==
    get_response_paging_info(p.limit, p.offset,
        Link(<<"api", "certificates">>,
             OptPair("certifying_body_id", p.certifying_body_id, ShowText)
               \o OptPair("factory_id", p.factory_id, ShowText)
               \o << <<"head", ToString(head)>> >>),
        total_count)

\* assertions.rs apply_paging
assertions_apply_paging(p, head, total_count) ==
    get_response_paging_info(p.limit, p.offset,
        Link(<<"api", "assertions">>, << <<"head", ToString(head)>> >>),
        total_count)

\* standards_body.rs apply_paging
standards_body_apply_paging(p, head, total_count) ==
    get_response_paging_info(p.limit, p.offset,
        Link(<<"api", "standards_body", "standards">>,
             << <<"organization_id", unwrap_or(p.organization_id, "")>>,
                <<"head", ToString(head)>> >>),
        total_count)

\* The link of a single-entity response.
fetch_link(resource, id, head) ==
    Link(<<"api", resource, id>>, << <<"head", ToString(head)>> >>)

\* ------------------------------------------------- the steps of a handler
\* The rows the count query of a list handler counts.
CountRows(r, d) ==
    CASE r.op = "query_factories" ->
            factories_count_query(d, r.head_block_num, r.params, r.key_sets)
      [] r.op = "list_organizations" ->
            organizations_count_query(d, r.head_block_num, r.params)
      [] r.op = "list_certificates" ->
            certificates_count_query(d, r.head_block_num, r.params)
      [] r.op = "list_assertions" -> assertions_count_query(d, r.head_block_num)
      [] r.op = "list_standards_belonging_to_org" ->
            standards_count_query(d, r.head_block_num, r.params)

PagingInfo(r, total_count) ==
    CASE r.op = "query_factories" ->
            factories_apply_paging(r.params, r.head_block_num, total_count)
      [] r.op = "list_organizations" ->
            organizations_apply_paging(r.params, r.head_block_num, total_count)
      [] r.op = "list_certificates" ->
            certificates_apply_paging(r.params, r.head_block_num, total_count)
      [] r.op = "list_assertions" ->
            assertions_apply_paging(r.params, r.head_block_num, total_count)
      [] r.op = "list_standards_belonging_to_org" ->
            standards_body_apply_paging(r.params, r.head_block_num, total_count)

\* The orders in which the page query of a list handler may return its rows,
\* before limit and offset: only factories and organizations have an ORDER BY.
PageRowOrders(r, d) ==
    CASE r.op = "query_factories" ->
            OrderedBy(factories_query(d, r.head_block_num, r.params, r.key_sets),
                      LAMBDA o : o.organization_id)
      [] r.op = "list_organizations" ->
            OrderedBy(organizations_query(d, r.head_block_num, r.params),
                      LAMBDA o : o.organization_id)
      [] r.op = "list_certificates" ->
            Orderings(certificate_query(d, r.head_block_num, r.params))
      [] r.op = "list_assertions" ->
            Orderings(assertions_query(d, r.head_block_num))
      [] r.op = "list_standards_belonging_to_org" ->
            Orderings(standards_results_query(d, r.head_block_num, r.params))

\* The rows .first() of a fetch handler chooses from.
FirstRows(r, d) ==
    CASE r.op = "fetch_factory" -> fetch_factory_query(d, r.head_block_num, r.id)
      [] r.op = "fetch_organization" ->
            fetch_organization_query(d, r.head_block_num, r.id)
      [] r.op = "fetch_certificate" ->
            fetch_certificate_query(d, r.head_block_num, r.id)
      [] r.op = "fetch_assertions" -> fetch_assertions_query(d, r.head_block_num, r.id)

\* The natural keys of the primary rows read so far.
PrimaryIds(r) ==
    CASE r.op \in {"list_certificates", "fetch_certificate"} ->
            {r.primary[i].cert.certificate_id : i \in 1..Len(r.primary)}
      [] r.op = "list_standards_belonging_to_org" ->
            {r.primary[i].standard.standard_id : i \in 1..Len(r.primary)}
      [] r.op \in {"list_assertions", "fetch_assertions"} ->
            {r.primary[i].assertion_id : i \in 1..Len(r.primary)}
      [] OTHER -> {r.primary[i].organization_id : i \in 1..Len(r.primary)}

\* Which dependent collections a handler reads for its primary rows.
ReadsAddress(r) ==
    \/ r.op \in {"query_factories", "fetch_factory", "list_organizations"}
    \/ r.op = "fetch_organization" /\ r.primary[1].organization_type = "Factory"

ExpandsCertificates(r) ==
    \/ r.op = "query_factories"
    \/ r.op = "fetch_factory" /\ IsSome(r.params.expand)

\* The step that follows pc in the handler of r.
NextPc(r, pc) ==
    CASE pc = "resolve" ->
            (IF r.op = "query_factories" THEN "keys"
             ELSE IF r.op \in ListOps THEN "count" ELSE "primary")
      [] pc = "keys" -> "count"
      [] pc = "count" -> "page"
      [] pc \in {"page", "primary"} ->
            (IF r.op \in {"list_certificates", "fetch_certificate"} THEN "require"
             ELSE IF r.op \in {"list_assertions", "fetch_assertions"} THEN "done"
             ELSE "deps")
      [] pc = "deps" -> (IF ExpandsCertificates(r) THEN "certs" ELSE "done")
      [] pc \in {"certs", "require"} -> "done"

\* ------------------------------------------------------------- assembling
RowOf(rows, Sel(_), default) ==
    IF \E x \in rows : Sel(x) THEN CHOOSE x \in rows : Sel(x) ELSE default

\* HashMap::remove(&org_id): the entry goes to the first row of that key; a
\* later row of the same key finds nothing.
FirstOfKey(r, i) ==
    \A j \in 1..(i - 1) : r.primary[j].organization_id # r.primary[i].organization_id

AssertionIdFor(r, id) ==
    IF \E a \in r.assertions : a.object_id = id
    THEN Some((CHOOSE a \in r.assertions : a.object_id = id).assertion_id)
    ELSE None

\* The factory object given every contact and authorization of the page,
\* whichever organization owns it.
FactoryObject_unkeyed(r, i, expanded) ==
    LET f == r.primary[i]
        id == f.organization_id
        mine == FirstOfKey(r, i)
        address == IF mine
                   THEN RowOf(r.addresses, LAMBDA a : a.organization_id = id, AddressDefault)
                   ELSE AddressDefault
        assertion == IF mine THEN AssertionIdFor(r, id) ELSE None
        certs == IF mine THEN {t \in r.certs : t.cert.factory_id = id} ELSE {}
    IN IF expanded
       THEN ApiFactory_with_certificate_expanded_and_assertion(
                f, address, r.contacts, r.authorizations, certs, assertion)
       ELSE ApiFactory_with_assertion(f, address, r.contacts, r.authorizations, assertion)

FactoryObject(r, i, expanded) ==
    LET f == r.primary[i]
        id == f.organization_id
        mine == FirstOfKey(r, i)
        address == IF mine
                   THEN RowOf(r.addresses, LAMBDA a : a.organization_id = id, AddressDefault)
                   ELSE AddressDefault
        contacts == IF mine THEN {c \in r.contacts : c.organization_id = id} ELSE {}
        auths == IF mine THEN {a \in r.authorizations : a.organization_id = id} ELSE {}
        assertion == IF mine THEN AssertionIdFor(r, id) ELSE None
        certs == IF mine THEN {t \in r.certs : t.cert.factory_id = id} ELSE {}
    IN IF expanded
       THEN ApiFactory_with_certificate_expanded_and_assertion(
                f, address, contacts, auths, certs, assertion)
       ELSE ApiFactory_with_assertion(f, address, contacts, auths, assertion)

OrganizationObject(r, i) ==
    LET o == r.primary[i]
        id == o.organization_id
        mine == FirstOfKey(r, i)
    IN IF o.organization_type = "Factory"
       THEN FactoryObject(r, i, FALSE)
       ELSE ApiBody(o,
                IF mine THEN {c \in r.contacts : c.organization_id = id} ELSE {},
                IF mine THEN {a \in r.authorizations : a.organization_id = id} ELSE {})

CertificateObject(r, i) ==
    LET t == r.primary[i]
    IN ApiCertificate(t.cert,
                      CHOOSE f \in r.factories : f.organization_id = t.cert.factory_id,
                      t.std[1], t.org[1], assertion_id_of(t.assertion))

StandardObject(r, i) ==
    LET t == r.primary[i]
    IN ApiStandard(t.standard,
                   {v \in r.versions : v.standard_id = t.standard.standard_id},
                   assertion_id_of(t.assertion))

\* The "data" of the response, built from the rows the request has read.
Data(r) ==
    [i \in 1..Len(r.primary) |->
        CASE r.op = "query_factories" ->
                FactoryObject(r, i, unwrap_or(r.params.expand, FALSE))
          [] r.op = "fetch_factory" -> FactoryObject(r, i, IsSome(r.params.expand))
          [] r.op \in {"list_organizations", "fetch_organization"} ->
                OrganizationObject(r, i)
          [] r.op \in {"list_certificates", "fetch_certificate"} -> CertificateObject(r, i)
          [] r.op \in {"list_assertions", "fetch_assertions"} -> ApiAssertion(r.primary[i])
          [] r.op = "list_standards_belonging_to_org" -> StandardObject(r, i)]

Resource(op) ==
    CASE op = "fetch_factory" -> "factories"
      [] op = "fetch_organization" -> "organizations"
      [] op = "fetch_certificate" -> "certificates"
      [] op = "fetch_assertions" -> "assertions"

\* Ok(json!({ "data": ..., "link": ..., "head": ..., "paging": ... })); the
\* standards-body list sends no "head", a fetch no "paging".
Respond(r) ==
    [r EXCEPT
       !.status = "Ok",
       !.pc = "done",
       !.data = Data(r),
       !.head = IF r.op = "list_standards_belonging_to_org"
                THEN None ELSE Some(r.head_block_num),
       !.link = IF r.op \in ListOps
                THEN Some(Unwrap(r.paging_info).link)
                ELSE Some(fetch_link(Resource(r.op), r.id, r.head_block_num)),
       !.paging = IF r.op \in ListOps THEN Some(Unwrap(r.paging_info).paging) ELSE None]

\* The request moves on to its next step, or answers when none is left.
Advance(r) ==
    IF NextPc(r, r.pc) = "done" THEN Respond(r) ELSE [r EXCEPT !.pc = NextPc(r, r.pc)]

\* ------------------------------------------------------ request inputs
Heads == {None} \cup {Some(h) : h \in 1..MaxHead}

Pagings ==
    {[limit |-> None, offset |-> None],
     [limit |-> Some(1), offset |-> None],
     [limit |-> Some(1), offset |-> Some(1)],
     [limit |-> Some(100), offset |-> Some(0)]}

WithHeadAndPage(p, h, g) ==
    [p EXCEPT !.head = h, !.limit = g.limit, !.offset = g.offset]

\* The parameter records of the list requests: every page shape without a
\* filter, every filter with the default page.
ListParams(filters) ==
    {WithHeadAndPage(NoParams, h, g) : h \in Heads, g \in Pagings}
    \cup {[f EXCEPT !.head = h] : f \in filters, h \in Heads}

FactoryFilters ==
    {[NoParams EXCEPT !.name = Some("acme mill")],
     [NoParams EXCEPT !.search = Some("mill")],
     [NoParams EXCEPT !.search = Some("mill"), !.name = Some("acme mill")],
     [NoParams EXCEPT !.search = Some("gots")],
     [NoParams EXCEPT !.search = Some("springfield")],
     [NoParams EXCEPT !.city = Some("springfield_similar")],
     [NoParams EXCEPT !.city = Some("sprat")],
     [NoParams EXCEPT !.city = Some("totally_different")],
     [NoParams EXCEPT !.state_province = Some("il")],
     [NoParams EXCEPT !.postal_code = Some("62701")],
     [NoParams EXCEPT !.city = Some("springfield"), !.country = Some("us")],
     [NoParams EXCEPT !.expand = Some(TRUE)],
     [NoParams EXCEPT !.expand = Some(FALSE)]}

OrganizationFilters ==
    {[NoParams EXCEPT !.name = Some("acme mill")],
     [NoParams EXCEPT !.organization_type = Some(1)]}

CertificateFilters ==
    {[NoParams EXCEPT !.certifying_body_id = Some("cb1")],
     [NoParams EXCEPT !.factory_id = Some("f2")]}

SameRequest(op, id, p) ==
    IsSome(saved) =>
        /\ Unwrap(saved).op = op
        /\ Unwrap(saved).id = id
        /\ Unwrap(saved).params = p

\* A request enters its handler with a connection.
Arrive(op, id, p) ==
    /\ SameRequest(op, id, p)
    /\ req' = Blank(op, id, p)
    /\ UNCHANGED <<db, saved, server>>

\* The r2d2 pool built by init_pool holds PoolSize connections; the workers
\* of the server take requests side by side.
Connections == 1..PoolSize
Workers == 1..MaxWorkers

IdleThread == [request |-> Idle, conn |-> None, rows |-> {}]

ServerIdle ==
    /\ pool = Connections
    /\ threads = [w \in Workers |-> IdleThread]
    /\ file = None

Init ==
    /\ db = EmptyDb
    /\ req = Idle
    /\ saved = None
    /\ ServerIdle

\* ------------------------------------------------------------- endpoints
list_factories_params ==
    /\ req.pc = "idle"
    /\ \E p \in ListParams(FactoryFilters) : Arrive("query_factories", "", p)

fetch_factory_with_head_param ==
    /\ req.pc = "idle"
    /\ \E id \in {"f1", "f2"}, h \in Heads, e \in {None, Some(TRUE), Some(FALSE)} :
          Arrive("fetch_factory", id, [NoParams EXCEPT !.head = h, !.expand = e])

list_organizations_with_params ==
    /\ req.pc = "idle"
    /\ \E p \in ListParams(OrganizationFilters) : Arrive("list_organizations", "", p)

fetch_organization_with_params ==
    /\ req.pc = "idle"
    /\ \E id \in {"f1", "cb1"}, h \in Heads :
          Arrive("fetch_organization", id, [NoParams EXCEPT !.head = h])

list_certificates_with_params ==
    /\ req.pc = "idle"
    /\ \E p \in ListParams(CertificateFilters) : Arrive("list_certificates", "", p)

fetch_certificate_with_head_param ==
    /\ req.pc = "idle"
    /\ \E id \in {"c1", "c2"}, h \in Heads :
          Arrive("fetch_certificate", id, [NoParams EXCEPT !.head = h])

list_assertions_with_params ==
    /\ req.pc = "idle"
    /\ \E p \in ListParams({}) : Arrive("list_assertions", "", p)

fetch_assertions_with_params ==
    /\ req.pc = "idle"
    /\ \E id \in {"a1"}, h \in Heads :
          Arrive("fetch_assertions", id, [NoParams EXCEPT !.head = h])

list_standards_belonging_to_org ==
    /\ req.pc = "idle"
    /\ \E p \in ListParams({}) :
          Arrive("list_standards_belonging_to_org", "",
                 [p EXCEPT !.organization_id = Some("sb1")])

\* ------------------------------------------------------------------ steps
\* Each step of a handler is one round trip (or one batch of them) to the
\* database d; it gives the values the request record may take after it.

\* The head resolution with an explicit head beyond the tip clamped to the tip.
resolve_head_clamped(head_param, d) ==
    IF head_param # <<>> /\ d.blocks # {} /\ head_param[1] > Tip(d)
    THEN [ok |-> TRUE, val |-> Tip(d)]
    ELSE get_head_block_num(head_param, d)

\* The head resolution with .unwrap_or(0) in place of `?`.
resolve_head_or_zero(head_param, d) ==
    IF get_head_block_num(head_param, d).ok
    THEN get_head_block_num(head_param, d)
    ELSE [ok |-> TRUE, val |-> 0]

\* let head_block_num: i64 = get_head_block_num(params.head, &conn)?;
resolve_head(head_param, d) == get_head_block_num(head_param, d)

ResolveStep(r, d) ==
    LET res == resolve_head(r.params.head, d)
    IN {IF res.ok
        THEN Advance([r EXCEPT !.head_block_num = res.val, !.db0 = d])
        ELSE Fail([r EXCEPT !.db0 = d], res.err)}

\* query_factories loads the key set of each search and fuzzy filter.
KeySetsStep(r, d) ==
    {Advance([r EXCEPT !.key_sets = factory_key_sets(d, r.head_block_num, r.params)])}

\* count_query.count().get_result(), then apply_paging.
CountStep(r, d) ==
    LET total_count == Cardinality(CountRows(r, d))
    IN {Advance([r EXCEPT !.total_count = total_count,
                          !.paging_info = Some(PagingInfo(r, total_count))])}

\* The page query returning one row when the request names no limit.
PageStep_default_limit_one(r, d) ==
    {Advance([r EXCEPT
        !.primary = Page(s, unwrap_or(r.params.limit, 1),
                         unwrap_or(r.params.offset, DEFAULT_OFFSET))])
       : s \in PageRowOrders(r, d)}

\* The page query with .limit(...).offset(...).
PageStep(r, d) ==
    {Advance([r EXCEPT
        !.primary = Page(s, unwrap_or(r.params.limit, DEFAULT_LIMIT),
                         unwrap_or(r.params.offset, DEFAULT_OFFSET))])
       : s \in PageRowOrders(r, d)}

\* A fetch handler answering Ok with nothing when .first() finds no row.
FirstStep_empty_ok(r, d) ==
    IF FirstRows(r, d) = {}
    THEN {Respond(r)}
    ELSE {Advance([r EXCEPT !.primary = <<x>>]) : x \in FirstRows(r, d)}

\* .first().optional() of a fetch handler; no row is NotFound.
FirstStep(r, d) ==
    IF FirstRows(r, d) = {}
    THEN {Fail(r, "NotFound")}
    ELSE {Advance([r EXCEPT !.primary = <<x>>]) : x \in FirstRows(r, d)}

\* The dependent collections of the primary rows, each read at the head.
DepsStep(r, d) ==
    LET ids == PrimaryIds(r)
        h == r.head_block_num
    IN IF r.op = "list_standards_belonging_to_org"
       THEN {Advance([r EXCEPT !.versions = standard_versions_query(d, h, ids)])}
       ELSE IF ReadsAddress(r)
       THEN {Advance([r EXCEPT
                !.contacts = contacts_query(d, h, ids),
                !.authorizations = authorizations_query(d, h, ids),
                !.addresses = A,
                !.assertions = S])
               : A \in OnePerKey(addresses_query(d, h, ids), LAMBDA a : a.organization_id),
                 S \in OnePerKey(object_assertions_query(d, h, ids), LAMBDA a : a.object_id)}
       ELSE {Advance([r EXCEPT
                !.contacts = contacts_query(d, h, ids),
                !.authorizations = authorizations_query(d, h, ids)])}

\* query_certifications(conn, head_block_num, &factory_ids)?
CertsStep(r, d) ==
    LET res == query_certifications(d, r.head_block_num, PrimaryIds(r))
    IN {IF res.ok THEN Advance([r EXCEPT !.certs = res.val]) ELSE Fail(r, res.err)}

\* certificates.rs: require_org for the factory of each joined row, then the
\* standard and the certifying body of the row must be there.
RequireStep(r, d) ==
    LET h == r.head_block_num
        rows == SeqSet(r.primary)
        found == UNION {require_org(d, h, t.cert.factory_id) : t \in rows}
    IN IF \E t \in rows : \/ require_org(d, h, t.cert.factory_id) = {}
                          \/ t.std = None
                          \/ t.org = None
       THEN {Fail(r, "InternalError")}
       ELSE {Advance([r EXCEPT !.factories = F])
               : F \in OnePerKey(found, LAMBDA o : o.organization_id)}

\* The round trip is seen at the chain tip of d.
Observed(R, d) == {[x EXCEPT !.tip1 = Tip(d)] : x \in R}

Step(r, d) ==
    Observed(
        CASE r.pc = "resolve" -> ResolveStep(r, d)
          [] r.pc = "keys" -> KeySetsStep(r, d)
          [] r.pc = "count" -> CountStep(r, d)
          [] r.pc = "page" -> PageStep(r, d)
          [] r.pc = "primary" -> FirstStep(r, d)
          [] r.pc = "deps" -> DepsStep(r, d)
          [] r.pc = "certs" -> CertsStep(r, d)
          [] r.pc = "require" -> RequireStep(r, d)
          [] OTHER -> {r},
        d)

ResolveHead ==
    /\ req.pc = "resolve"
    /\ req' \in Observed(ResolveStep(req, db), db)
    /\ UNCHANGED <<db, saved, server>>

LoadKeySets ==
    /\ req.pc = "keys"
    /\ req' \in Observed(KeySetsStep(req, db), db)
    /\ UNCHANGED <<db, saved, server>>

CountQuery ==
    /\ req.pc = "count"
    /\ req' \in Observed(CountStep(req, db), db)
    /\ UNCHANGED <<db, saved, server>>

PageQuery ==
    /\ req.pc = "page"
    /\ req' \in Observed(PageStep(req, db), db)
    /\ UNCHANGED <<db, saved, server>>

FirstQuery ==
    /\ req.pc = "primary"
    /\ req' \in Observed(FirstStep(req, db), db)
    /\ UNCHANGED <<db, saved, server>>

DependentQueries ==
    /\ req.pc = "deps"
    /\ req' \in Observed(DepsStep(req, db), db)
    /\ UNCHANGED <<db, saved, server>>

CertificationsQuery ==
    /\ req.pc = "certs"
    /\ req' \in Observed(CertsStep(req, db), db)
    /\ UNCHANGED <<db, saved, server>>

RequireOrg ==
    /\ req.pc = "require"
    /\ req' \in Observed(RequireStep(req, db), db)
    /\ UNCHANGED <<db, saved, server>>

\* The handler run against one unchanging database: every response it may give.
RECURSIVE RunAll(_, _)
RunAll(R, d) ==
    IF \A r \in R : r.pc = "done" THEN R
    ELSE RunAll(UNION {Step(r, d) : r \in R}, d)

Answers(op, id, p, d) == RunAll({Blank(op, id, p)}, d)

\* The response (or the error) is sent and the worker is free again.
Complete ==
    /\ req.pc = "done"
    /\ req' = Idle
    /\ UNCHANGED <<db, saved, server>>

\* The ingestion process commits the next block with its transaction.
Ingest ==
    /\ Tip(db) < MaxBlock
    /\ \E tx \in Transactions(db) : db' = CommitBlock(db, tx)
    /\ UNCHANGED <<req, saved, server>>

Next ==
    \/ Ingest
    \/ list_factories_params
    \/ fetch_factory_with_head_param
    \/ list_organizations_with_params
    \/ fetch_organization_with_params
    \/ list_certificates_with_params
    \/ fetch_certificate_with_head_param
    \/ list_assertions_with_params
    \/ fetch_assertions_with_params
    \/ list_standards_belonging_to_org
    \/ ResolveHead
    \/ LoadKeySets
    \/ CountQuery
    \/ PageQuery
    \/ FirstQuery
    \/ DependentQueries
    \/ CertificationsQuery
    \/ RequireOrg
    \/ Complete

Spec == Init /\ [][Next]_vars
\* ------------------------------------------- a ledger that violates I1
\* The ingestion commits a block that adds a version of a natural key and
\* leaves the open version of that key open: both are valid from then on.
Overlapping(d) ==
    {[kind |-> "Organization", id |-> o] :
        o \in {p \in {"f1", "cb1"} :
                 HasOpen(d.organizations, LAMBDA r : r.organization_id = p)}}
    \cup {[kind |-> "Assertion", id |-> a] :
        a \in {b \in {"a1"} : HasOpen(d.assertions, LAMBDA r : r.assertion_id = b)}}

InsertOverlapping(d, tx, n) ==
    IF tx.kind = "Organization"
    THEN LET old == CHOOSE r \in OpenRows(d.organizations) : r.organization_id = tx.id
         IN [d EXCEPT !.organizations =
                @ \cup {NewOrganization(tx.id, "renamed", old.organization_type, n)},
                      !.blocks = @ \cup {n}]
    ELSE [d EXCEPT !.assertions = @ \cup {NewAssertion(tx.id, AssertedObject(tx.id), n)},
                   !.blocks = @ \cup {n}]

IngestOverlapping ==
    /\ Tip(db) < MaxBlock
    /\ \E tx \in Overlapping(db) : db' = InsertOverlapping(db, tx, Tip(db) + 1)
    /\ UNCHANGED <<req, saved, server>>

NextI1 ==
    \/ Next
    \/ IngestOverlapping

SpecI1 == Init /\ [][NextI1]_vars

\* ------------------------------------------------ a request made twice
\* The client keeps the response of a request made with an explicit head and
\* makes the identical request again.
Save ==
    /\ req.pc = "done"
    /\ saved = None
    /\ IsSome(req.params.head)
    /\ saved' = Some([op |-> req.op, id |-> req.id, params |-> req.params,
                      status |-> req.status, data |-> req.data, paging |-> req.paging,
                      tip0 |-> Tip(req.db0), tip1 |-> req.tip1])
    /\ req' = Idle
    /\ UNCHANGED <<db, server>>

NextRepeat ==
    \/ Next
    \/ Save

SpecRepeat == Init /\ [][NextRepeat]_vars

\* ------------------------------------------- pagination as a function
\* apply_paging of each list handler on every total_count, limit and offset.
PagingInputs ==
    {[NoParams EXCEPT !.limit = l, !.offset = o, !.head = Some(1)] :
        l \in {None} \cup {Some(n) : n \in 1..MaxLimit},
        o \in {None} \cup {Some(n) : n \in 0..MaxOffset}}

InitPaging ==
    /\ db = EmptyDb
    /\ saved = None
    /\ ServerIdle
    /\ \E op \in ListOps, p \in PagingInputs, total \in 0..MaxTotal :
          req = [Blank(op, "", p) EXCEPT !.pc = "count", !.head_block_num = 1,
                                         !.total_count = total]

ApplyPaging ==
    /\ req.pc = "count"
    /\ req' = [req EXCEPT !.paging_info = Some(PagingInfo(req, req.total_count)),
                          !.pc = "paged"]
    /\ UNCHANGED <<db, saved, server>>

NextPaging == ApplyPaging

SpecPaging == InitPaging /\ [][NextPaging]_vars

\* ------------------------------------- a ledger with several assertions
\* The ledger after two blocks: factory f1, then the standards body, the
\* standard, the certifying body and the certificate c1 of f1.
SeededDb ==
    CommitBlock(CommitBlock(EmptyDb, [kind |-> "CreateFactory", id |-> "f1"]),
                [kind |-> "CreateStdAndCert", id |-> "c1"])

\* Assertions that organizations make next, two for each object.
AssertionTransactions(d) ==
    {[kind |-> "CreateAssertion", id |-> t[1], object |-> t[2]] :
        t \in {u \in {<<"a1", "f1">>, <<"a2", "c1">>, <<"a3", "c1">>,
                      <<"a4", "s1">>, <<"a5", "s1">>, <<"a6", "f1">>} :
                 ~HasAny(d.assertions, LAMBDA r : r.assertion_id = u[1])}}

InitSeeded ==
    /\ db = SeededDb
    /\ req = Idle
    /\ saved = None
    /\ ServerIdle

IngestAssertion ==
    /\ Tip(db) < Tip(SeededDb) + MaxAssertions
    /\ \E tx \in AssertionTransactions(db) :
          LET n == Tip(db) + 1
          IN db' = [CreateAssertion(db, tx.id, tx.object, n) EXCEPT !.blocks = @ \cup {n}]
    /\ UNCHANGED <<req, saved, server>>

NextSeeded ==
    \/ IngestAssertion
    \/ list_factories_params
    \/ fetch_factory_with_head_param
    \/ list_organizations_with_params
    \/ fetch_organization_with_params
    \/ list_certificates_with_params
    \/ fetch_certificate_with_head_param
    \/ list_assertions_with_params
    \/ fetch_assertions_with_params
    \/ list_standards_belonging_to_org
    \/ ResolveHead
    \/ LoadKeySets
    \/ CountQuery
    \/ PageQuery
    \/ FirstQuery
    \/ DependentQueries
    \/ CertificationsQuery
    \/ RequireOrg
    \/ Complete

SpecSeeded == InitSeeded /\ [][NextSeeded]_vars

\* ------------------------------------------------- a store that may fail
\* The steps of a handler that send a query to the store.
HasQuery(r) ==
    \/ r.pc = "resolve" /\ r.params.head = None
    \/ r.pc = "keys" /\ factory_key_sets(EmptyDb, 0, r.params) # <<>>
    \/ r.pc \in {"count", "page", "primary", "deps", "certs", "require"}

\* The organization ids of a search whose sub-select of the matching
\* standards failed: load(..).unwrap_or_default() hands an empty list to
\* eq_any, so no certificate matches.
search_org_ids_standards_failed(d, head, search) ==
    LET q == plainto_tsquery(search)
        matched_address_org_ids ==
            {a.organization_id : a \in {x \in AtHead(d.addresses, head) :
                                          matches(x.text_searchable_address_col, q)}}
        matched_org_ids ==
            {o.organization_id : o \in {x \in AtHead(d.organizations, head) :
                                          matches(to_tsvector(x.name), q)}}
    IN matched_address_org_ids \cup matched_org_ids

\* What a handler does at its step when one of the queries of that step
\* fails: a query followed by `?` or map_err ends the request with the error;
\* the standards sub-select of the search goes on with an empty list.
FailedStep(r, d) ==
    {Fail(r, "InternalError")}
    \cup (IF r.pc = "keys" /\ IsSome(r.params.search)
          THEN {Advance([r EXCEPT !.key_sets =
                   [factory_key_sets(d, r.head_block_num, r.params) EXCEPT
                       ![1] = search_org_ids_standards_failed(d, r.head_block_num,
                                                              Unwrap(r.params.search))]])}
          ELSE {})

\* A query of the request fails in the store.
QueryFails ==
    /\ HasQuery(req)
    /\ req' \in Observed(FailedStep(req, db), db)
    /\ UNCHANGED <<db, saved, server>>

NextFaulty ==
    \/ Next
    \/ QueryFails

SpecFaulty == Init /\ [][NextFaulty]_vars

\* ------------------------------------------- requests served side by side
\* The requests the workers serve here: two of the JSON endpoints and the
\* CSV export.
ServerRequests ==
    {[op |-> "fetch_organization", id |-> "f1", params |-> NoParams],
     [op |-> "query_factories", id |-> "", params |-> NoParams],
     [op |-> "get_factories", id |-> "", params |-> NoParams]}

\* A request inside its handler: its guards passed, its response not yet made.
InHandler(r) == r.pc \notin {"idle", "guard", "done"}

\* pool.get(): an idle connection, or an error when the pool has none to give
\* within its timeout.
pool_get(idle) == IF idle = {} THEN {Err("timed out")} ELSE {Ok(c) : c \in idle}

\* from_request answering an exhausted pool by letting the handler run
\* without a connection.
from_request_forwarding(r, idle) ==
    {IF got.ok
     THEN [request |-> [r EXCEPT !.pc = "resolve"], conn |-> Some(got.val),
           pool |-> idle \ {got.val}]
     ELSE [request |-> [r EXCEPT !.pc = "resolve"], conn |-> None, pool |-> idle]
     : got \in pool_get(idle)}

\* DbConn::from_request, the request guard of every handler that takes a
\* DbConn.
from_request(r, idle) ==
    {IF got.ok
     THEN [request |-> [r EXCEPT !.pc = "resolve"], conn |-> Some(got.val),
           pool |-> idle \ {got.val}]
     ELSE [request |-> Fail(r, "ServiceUnavailable"), conn |-> None, pool |-> idle]
     : got \in pool_get(idle)}

\* A DbConn dropped only by a handler that returns Ok.
drop_DbConn_on_success(t, r2, idle) ==
    IF r2.pc = "done" /\ r2.status = "Ok"
    THEN [thread |-> [t EXCEPT !.request = r2, !.conn = None],
          pool |-> idle \cup SeqSet(t.conn)]
    ELSE [thread |-> [t EXCEPT !.request = r2], pool |-> idle]

\* The handler owns its DbConn: when it returns, with Ok or with Err, the
\* DbConn is dropped and its connection goes back to the pool.
drop_DbConn(t, r2, idle) ==
    IF r2.pc = "done"
    THEN [thread |-> [t EXCEPT !.request = r2, !.conn = None],
          pool |-> idle \cup SeqSet(t.conn)]
    ELSE [thread |-> [t EXCEPT !.request = r2], pool |-> idle]

\* Utc.timestamp_opt(n, 0) ... to_string()
timestamp_to_string(n) == <<"UTC", n>>

\* Row::from: one line of the CSV file.
Row(o, a, c, std_name) ==
    [name |-> o.name,
     organization_id |-> o.organization_id,
     country |-> IF IsSome(a) THEN Unwrap(a).country ELSE "",
     city |-> IF IsSome(a) THEN Unwrap(a).city ELSE "",
     state |-> IF IsSome(a) THEN unwrap_or(Unwrap(a).state_province, "") ELSE "",
     postal_code |-> IF IsSome(a) THEN unwrap_or(Unwrap(a).postal_code, "") ELSE "",
     certificate_standard_name |-> std_name,
     valid_from |-> IF IsSome(c) THEN Some(timestamp_to_string(Unwrap(c).valid_from)) ELSE None,
     valid_to |-> IF IsSome(c) THEN Some(timestamp_to_string(Unwrap(c).valid_to)) ELSE None]

\* get_factories: the factories at the head, left-joined to their addresses,
\* their certificates and the standards of these, one Row per joined row.
csv_factories_query(d, head) ==
    UNION {
      UNION {
        UNION {
          {Row(o, a, c, IF IsSome(s) THEN Some(Unwrap(s).name) ELSE None) :
              s \in IF IsSome(c)
                    THEN OptRows({x \in AtHead(d.standards, head) :
                                    x.standard_id = Unwrap(c).standard_id})
                    ELSE {None}}
          : c \in OptRows({x \in AtHead(d.certificates, head) :
                             x.factory_id = o.organization_id})}
        : a \in OptRows({x \in AtHead(d.addresses, head) :
                           x.organization_id = o.organization_id})}
      : o \in {x \in AtHead(d.organizations, head) : x.organization_type = "Factory"}}

\* The steps of get_factories, each one on the thread t of the request, the
\* database d and the file f as they are at that step.
\* get_head_block_num(None, &conn)?
csv_head_step(t, d, f) ==
    LET r == t.request
        res == get_head_block_num(None, d)
    IN IF res.ok
       THEN [thread |-> [t EXCEPT !.request = [r EXCEPT !.head_block_num = res.val,
                                                          !.db0 = d, !.pc = "csv_load"]],
             file |-> f]
       ELSE [thread |-> [t EXCEPT !.request = Fail([r EXCEPT !.db0 = d], res.err)],
             file |-> f]

\* factories_query ... .load(&*conn)?
csv_load_step(t, d, f) ==
    [thread |-> [t EXCEPT !.rows = csv_factories_query(d, t.request.head_block_num),
                          !.request = [t.request EXCEPT !.pc = "csv_create"]],
     file |-> f]

\* csv::Writer::from_path(FILENAME): the file is created, or emptied if it
\* is there.
csv_create_step(t, d, f) ==
    [thread |-> [t EXCEPT !.request = [t.request EXCEPT !.pc = "csv_flush"]],
     file |-> Some({})]

\* wtr.serialize(Row::from(factory)) for every row, then wtr.flush(): the
\* rows of this request are written through the handle the request opened,
\* from the start of the file.
csv_flush_step(t, d, f) ==
    [thread |-> [t EXCEPT !.request = [t.request EXCEPT !.pc = "csv_open"]],
     file |-> Some(t.rows)]

\* NamedFile::open(FILENAME): the response body is what the file holds.
csv_open_step(t, d, f) ==
    [thread |-> [t EXCEPT !.request =
                    IF IsSome(f)
                    THEN [t.request EXCEPT !.status = "Ok", !.data = <<Unwrap(f)>>,
                                           !.pc = "done"]
                    ELSE Fail(t.request, "InternalError")],
     file |-> f]

\* A request is routed to a free worker.
Dispatch ==
    \E w \in Workers, q \in ServerRequests :
        /\ threads[w].request.pc = "idle"
        /\ threads' = [threads EXCEPT ![w].request =
                          [Blank(q.op, q.id, q.params) EXCEPT !.pc = "guard"]]
        /\ UNCHANGED <<db, req, saved, pool, file>>

\* The DbConn guard of the request runs before its handler.
DbConnGuard ==
    \E w \in Workers :
        /\ threads[w].request.pc = "guard"
        /\ \E o \in from_request(threads[w].request, pool) :
              /\ threads' = [threads EXCEPT ![w].request = o.request, ![w].conn = o.conn]
              /\ pool' = o.pool
        /\ UNCHANGED <<db, req, saved, file>>

\* One round trip of a JSON handler over the connection of its DbConn; the
\* DbConn is dropped when the handler returns.
HandlerQuery ==
    \E w \in Workers :
        /\ InHandler(threads[w].request)
        /\ threads[w].request.op # "get_factories"
        /\ \E r2 \in Step(threads[w].request, db) :
              LET o == drop_DbConn(threads[w], r2, pool)
              IN /\ threads' = [threads EXCEPT ![w] = o.thread]
                 /\ pool' = o.pool
        /\ UNCHANGED <<db, req, saved, file>>

\* One step of get_factories.
CsvStep(w, out) ==
    /\ threads[w].request.op = "get_factories"
    /\ LET o == drop_DbConn(threads[w], out.thread.request, pool)
       IN /\ threads' = [threads EXCEPT ![w] = [out.thread EXCEPT !.conn = o.thread.conn]]
          /\ pool' = o.pool
    /\ file' = out.file
    /\ UNCHANGED <<db, req, saved>>

get_factories_head ==
    \E w \in Workers :
        /\ threads[w].request.pc = "resolve"
        /\ CsvStep(w, csv_head_step(threads[w], db, file))

get_factories_load ==
    \E w \in Workers :
        /\ threads[w].request.pc = "csv_load"
        /\ CsvStep(w, csv_load_step(threads[w], db, file))

write_factories_csv_create ==
    \E w \in Workers :
        /\ threads[w].request.pc = "csv_create"
        /\ CsvStep(w, csv_create_step(threads[w], db, file))

write_factories_csv_flush ==
    \E w \in Workers :
        /\ threads[w].request.pc = "csv_flush"
        /\ CsvStep(w, csv_flush_step(threads[w], db, file))

NamedFile_open ==
    \E w \in Workers :
        /\ threads[w].request.pc = "csv_open"
        /\ CsvStep(w, csv_open_step(threads[w], db, file))

\* The response, or the error of the guard, is sent and the worker is free.
SendResponse ==
    \E w \in Workers :
        /\ threads[w].request.pc = "done"
        /\ threads' = [threads EXCEPT ![w] = IdleThread]
        /\ UNCHANGED <<db, req, saved, pool, file>>

\* The ingestion process, here registering factories only.
IngestFactory ==
    /\ Tip(db) < MaxBlock
    /\ \E tx \in {t \in Transactions(db) : t.kind = "CreateFactory"} :
          db' = CommitBlock(db, tx)
    /\ UNCHANGED <<req, saved, server>>

NextServer ==
    \/ IngestFactory
    \/ Dispatch
    \/ DbConnGuard
    \/ HandlerQuery
    \/ get_factories_head
    \/ get_factories_load
    \/ write_factories_csv_create
    \/ write_factories_csv_flush
    \/ NamedFile_open
    \/ SendResponse

SpecServer == Init /\ [][NextServer]_vars

\* ================================================================ properties
\* What the client receives.
Response(r) ==
    [status |-> r.status, data |-> r.data, head |-> r.head, link |-> r.link,
     paging |-> r.paging]

Responses(R) == {Response(r) : r \in R}

Span(x) == <<x.start_block_num, x.end_block_num>>
Spans(rows) == {Span(x) : x \in rows}

\* The validity ranges of the rows of one joined primary row.
PrimarySpans(op, t) ==
    CASE op \in {"list_certificates", "fetch_certificate"} ->
            {Span(t.cert)} \cup Spans(SeqSet(t.std)) \cup Spans(SeqSet(t.org))
            \cup Spans(SeqSet(t.assertion))
      [] op = "list_standards_belonging_to_org" ->
            {Span(t.standard)} \cup Spans(SeqSet(t.assertion))
      [] OTHER -> {Span(t)}

\* The validity ranges of every row the request has read so far.
SpansRead(r) ==
    UNION {PrimarySpans(r.op, r.primary[i]) : i \in 1..Len(r.primary)}
    \cup Spans(r.contacts) \cup Spans(r.authorizations) \cup Spans(r.addresses)
    \cup Spans(r.assertions) \cup Spans(r.factories) \cup Spans(r.versions)
    \cup UNION {PrimarySpans("list_certificates", t) : t \in r.certs}

\* No block was committed between the head resolution of r and its latest
\* round trip.
Undisturbed(r) == r.tip1 = Tip(r.db0)

\* The resolved head of r was already reached when it was resolved.
HeadReached(r) == r.head_block_num <= Tip(r.db0)

\* C1: every row that contributes to a response (primary row, contact,
\* authorization, address, certificate, standard, certifying body, factory,
\* assertion, standard version) has start_block_num <= H < end_block_num for
\* the resolved head H, the end being exclusive; and a factory fetch answers
\* NotFound only when no version of the factory has H in its range.
C1_RowsValidAtHead ==
    /\ \A s \in SpansRead(req) : s[1] <= req.head_block_num /\ req.head_block_num < s[2]
    /\ (/\ req.pc = "done"
        /\ req.op = "fetch_factory"
        /\ req.status = "NotFound"
        /\ HeadReached(req))
       => ~ \E o \in db.organizations :
               /\ o.organization_id = req.id
               /\ o.organization_type = "Factory"
               /\ o.start_block_num <= req.head_block_num
               /\ req.head_block_num < o.end_block_num

\* C1 witness: the factory version 1..2 is returned by a fetch at head 1.
C1_Witness ==
    /\ req.pc = "done"
    /\ req.op = "fetch_factory"
    /\ req.status = "Ok"
    /\ req.head_block_num = 1
    /\ Span(req.primary[1]) = <<1, 2>>

C3_ExplicitHeadVerbatim ==
    /\ (req.pc \notin {"idle", "resolve"} /\ IsSome(req.params.head))
         => req.head_block_num = Unwrap(req.params.head)
    /\ (/\ req.pc = "done"
        /\ IsSome(req.params.head)
        /\ Unwrap(req.params.head) > Tip(req.db0)
        /\ Undisturbed(req))
       => IF req.db0.blocks = {}
          THEN req.data = <<>> /\ req.status \in {"Ok", "NotFound"}
          ELSE \E a \in Answers(req.op, req.id,
                                [req.params EXCEPT !.head = Some(Tip(req.db0))],
                                req.db0) :
                  /\ a.status = req.status
                  /\ a.data = req.data
                  /\ a.total_count = req.total_count

\* C3 witness: a list at an explicit head beyond the tip that returns a row.
C3_Witness ==
    /\ req.pc = "done"
    /\ req.op = "list_organizations"
    /\ req.status = "Ok"
    /\ IsSome(req.params.head)
    /\ Unwrap(req.params.head) > Tip(db)
    /\ Len(req.data) > 0

\* C3 as stated: a list at an explicit head beyond the tip succeeds with an
\* empty result set.
C3_AsStated ==
    (/\ req.pc = "done"
     /\ req.op \in ListOps
     /\ IsSome(req.params.head)
     /\ Unwrap(req.params.head) > Tip(db))
    => req.status = "Ok" /\ req.data = <<>>

\* C4: with no head from the caller the request uses the maximum committed
\* block_num at resolution time; with no block committed it fails with
\* InternalError before any query, and never runs with head 0.
C4_DefaultHeadIsTip ==
    (req.pc \notin {"idle", "resolve"} /\ req.params.head = None)
    => IF req.db0.blocks = {}
       THEN /\ req.pc = "done"
            /\ req.status = "InternalError"
            /\ req.primary = <<>>
            /\ req.paging_info = None
       ELSE /\ req.head_block_num \in req.db0.blocks
            /\ \A b \in req.db0.blocks : b <= req.head_block_num

\* C4 witness: a request without head against the empty ledger has failed.
C4_Witness ==
    /\ req.pc = "done"
    /\ req.op = "list_assertions"
    /\ req.params.head = None
    /\ req.db0.blocks = {}
    /\ db.blocks = {}
    /\ req.status = "InternalError"

\* A certificate valid at head h whose standard or certifying body has no
\* version valid at h.
Dangling(d, h, c) ==
    /\ c.start_block_num <= h /\ h < c.end_block_num
    /\ \/ ~ \E x \in d.standards :
              /\ x.standard_id = c.standard_id
              /\ x.start_block_num <= h /\ h < x.end_block_num
       \/ ~ \E x \in d.organizations :
              /\ x.organization_id = c.certifying_body_id
              /\ x.start_block_num <= h /\ h < x.end_block_num

\* The certificates a successful response of r would have to show.
CertificatesDue(r, d) ==
    CASE r.op = "fetch_certificate" ->
            {c \in d.certificates : c.certificate_id = r.id}
      [] r.op = "list_certificates" /\ r.params.limit = None ->
            {c \in d.certificates :
                /\ IsSome(r.params.certifying_body_id) =>
                      c.certifying_body_id = Unwrap(r.params.certifying_body_id)
                /\ IsSome(r.params.factory_id) => c.factory_id = Unwrap(r.params.factory_id)}
      [] r.op \in {"query_factories", "fetch_factory"} /\ r.params.expand = Some(TRUE) ->
            {c \in d.certificates :
                \E i \in 1..Len(r.primary) : r.primary[i].organization_id = c.factory_id}
      [] OTHER -> {}

\* C5: a certificate fetch, a certificate list and an expanded factory query
\* that has to show a certificate whose standard or certifying body has no
\* version at the head fails with InternalError; a successful response never
\* leaves the certificate out and never shows it without the nested entity.
C5_DanglingCertificateFails ==
    /\ (/\ req.pc = "done"
        /\ req.status # "NotFound"
        /\ HeadReached(req) \/ Undisturbed(req)
        /\ \E c \in CertificatesDue(req, req.db0) :
              Dangling(req.db0, req.head_block_num, c))
       => req.status = "InternalError"
    /\ (req.pc = "done" /\ req.status = "Ok")
       => /\ \A t \in req.certs : t.std # None /\ t.org # None
          /\ req.op \in {"list_certificates", "fetch_certificate"}
               => \A i \in 1..Len(req.primary) :
                     req.primary[i].std # None /\ req.primary[i].org # None

\* C5 witness: an expanded factory list has failed on a certificate of a listed
\* factory whose standard or certifying body is gone at the head.
C5_Witness ==
    /\ req.pc = "done"
    /\ req.op = "query_factories"
    /\ req.params.expand = Some(TRUE)
    /\ req.status = "InternalError"
    /\ Len(req.primary) > 0
    /\ \E c \in CertificatesDue(req, req.db0) : Dangling(req.db0, req.head_block_num, c)

\* The stored versions of the key a fetch asks for that are valid at its head.
VersionsOfKey(r, d) ==
    LET h == r.head_block_num
        At(rows) == {x \in rows : x.start_block_num <= h /\ h < x.end_block_num}
    IN CASE r.op = "fetch_factory" ->
               {x \in At(d.organizations) :
                   x.organization_id = r.id /\ x.organization_type = "Factory"}
         [] r.op = "fetch_organization" ->
               {x \in At(d.organizations) : x.organization_id = r.id}
         [] r.op = "fetch_certificate" ->
               {x \in At(d.certificates) : x.certificate_id = r.id}
         [] r.op = "fetch_assertions" ->
               {x \in At(d.assertions) : x.assertion_id = r.id}
         [] OTHER -> {}

\* C6 as stated: a fetch by natural key for which more than one stored version
\* of the key is valid at the head fails with InternalError and never returns
\* one of the versions.
C6_AsStated ==
    (/\ req.pc = "done"
     /\ req.op \in FetchOps
     /\ HeadReached(req) \/ Undisturbed(req)
     /\ Cardinality(VersionsOfKey(req, req.db0)) > 1)
    => req.status = "InternalError"

\* The primary table of a list and the part of it its filters select.
PrimaryTable(r, d) ==
    CASE r.op = "query_factories" ->
            {x \in d.organizations :
                /\ x.organization_type = "Factory"
                /\ IsSome(r.params.name) => x.name = Unwrap(r.params.name)
                /\ \A i \in 1..Len(r.key_sets) : x.organization_id \in r.key_sets[i]}
      [] r.op = "list_organizations" ->
            {x \in d.organizations :
                /\ IsSome(r.params.name) => x.name = Unwrap(r.params.name)
                /\ IsSome(r.params.organization_type) =>
                      x.organization_type =
                         (IF Unwrap(r.params.organization_type) = 1
                          THEN "CertifyingBody" ELSE "StandardsBody")}
      [] r.op = "list_certificates" ->
            {x \in d.certificates :
                /\ IsSome(r.params.certifying_body_id) =>
                      x.certifying_body_id = Unwrap(r.params.certifying_body_id)
                /\ IsSome(r.params.factory_id) => x.factory_id = Unwrap(r.params.factory_id)}
      [] r.op = "list_assertions" -> d.assertions
      [] r.op = "list_standards_belonging_to_org" ->
            {x \in d.standards :
                IsSome(r.params.organization_id)
                /\ x.organization_id = Unwrap(r.params.organization_id)}
      [] OTHER -> {}

\* The primary-table row of a page row.
PrimaryRow(op, t) ==
    CASE op = "list_certificates" -> t.cert
      [] op = "list_standards_belonging_to_org" -> t.standard
      [] OTHER -> t

PrimaryRowsRead(r) == {PrimaryRow(r.op, r.primary[i]) : i \in 1..Len(r.primary)}

\* A stored version whatever block closes it: a later block may set the end
\* of a version, never its key, start or content.
Version(x) == [x EXCEPT !.end_block_num = I64_MAX]

\* C7: for heads H1 < H2 (and H1 = H2), a record valid at H1 is among the rows
\* of a successful unpaged list at H2 unless its end_block_num <= H2; so an
\* open record is listed at every head from its start_block_num on.
C7_StillIncludedLater ==
    (/\ req.pc = "done"
     /\ req.op \in ListOps
     /\ req.status = "Ok"
     /\ req.params.limit = None
     /\ HeadReached(req) \/ Undisturbed(req))
    => \A x \in PrimaryTable(req, req.db0) :
          \A H1 \in 0..req.head_block_num :
             (/\ x.start_block_num <= H1 /\ H1 < x.end_block_num
              /\ ~(x.end_block_num <= req.head_block_num))
             => Version(x) \in {Version(y) : y \in PrimaryRowsRead(req)}

\* C7 witness: an organizations list at head 3 shows a row open since block 1
\* while another organization, ended by block 3, is left out.
C7_Witness ==
    /\ req.pc = "done"
    /\ req.op = "list_organizations"
    /\ req.status = "Ok"
    /\ req.params.limit = None
    /\ req.params.name = None /\ req.params.organization_type = None
    /\ req.head_block_num = 3
    /\ \E x \in PrimaryRowsRead(req) : Span(x) = <<1, I64_MAX>>
    /\ \E y \in req.db0.organizations :
          y.end_block_num <= 3 /\ y \notin PrimaryRowsRead(req)

\* The lists whose page query has an ORDER BY.
OrderedOps == {"query_factories", "list_organizations"}

TotalOf(paging) == IF IsSome(paging) THEN Unwrap(paging).total ELSE -1

\* Two responses to the same request show the same thing: the same status,
\* total and data where the row order is fixed by the query (the fetches and
\* the ordered lists); for a list without ORDER BY the same total when both
\* succeed and, when the page is the whole list, the same status and rows.
SameAnswer(op, params, s, r) ==
    IF op \in FetchOps \cup OrderedOps
    THEN /\ s.status = r.status
         /\ s.data = r.data
         /\ TotalOf(s.paging) = TotalOf(r.paging)
    ELSE /\ (s.status = "Ok" /\ r.status = "Ok")
              => TotalOf(s.paging) = TotalOf(r.paging)
         /\ params.limit = None
              => /\ s.status = r.status
                 /\ SeqSet(s.data) = SeqSet(r.data)

C9_TotalCountsPageQuery ==
    (/\ req.pc = "done"
     /\ req.op \in ListOps
     /\ req.status = "Ok"
     /\ HeadReached(req) \/ Undisturbed(req))
    => /\ Unwrap(req.paging).total =
            Cardinality({PrimaryRow(req.op, t) :
                           t \in UNION {SeqSet(s) : s \in PageRowOrders(req, req.db0)}})
       /\ Unwrap(req.paging).total =
            Cardinality({x \in PrimaryTable(req, req.db0) :
                           /\ x.start_block_num <= req.head_block_num
                           /\ req.head_block_num < x.end_block_num})
       /\ req.params.limit = None => Len(req.data) = Unwrap(req.paging).total

\* C9 witness: a factories list filtered by name has total 1 while two
\* factories are valid at the head.
C9_Witness ==
    /\ req.pc = "done"
    /\ req.op = "query_factories"
    /\ req.status = "Ok"
    /\ IsSome(req.params.name)
    /\ Unwrap(req.paging).total = 1
    /\ Cardinality({x.organization_id :
                      x \in {y \in req.db0.organizations :
                               /\ y.organization_type = "Factory"
                               /\ y.start_block_num <= req.head_block_num
                               /\ req.head_block_num < y.end_block_num}}) = 2

\* The limit and the offset a link carries.
LimitOf(link) == link.query[Len(link.query) - 1][2]
OffsetOf(link) == link.query[Len(link.query)][2]

\* C10: for every total_count >= 0 and limit > 0 the first link has offset 0
\* and the last link has offset floor((total_count - 1) / limit) * limit, 0
\* when total_count = 0: the one multiple of limit with
\* last < total_count <= last + limit.
C10_FirstAndLastOffsets ==
    req.pc = "paged"
    => LET paging == Unwrap(req.paging_info).paging
           limit == IF IsSome(req.params.limit) THEN Unwrap(req.params.limit) ELSE 100
           total == req.total_count
           last == OffsetOf(paging.last)
       IN /\ OffsetOf(paging.first) = 0
          /\ LimitOf(paging.first) = limit /\ LimitOf(paging.last) = limit
          /\ paging.total = total
          /\ \E k \in 0..total : last = k * limit
          /\ total = 0 => last = 0
          /\ total > 0 => (last + limit >= total /\ last < total)

\* C10 witness: 7 rows in pages of 3: the last page starts at offset 6.
C10_Witness ==
    /\ req.pc = "paged"
    /\ req.op = "query_factories"
    /\ req.total_count = 7
    /\ req.params.limit = Some(3)
    /\ OffsetOf(Unwrap(req.paging_info).paging.last) = 6
    /\ OffsetOf(Unwrap(req.paging_info).paging.first) = 0

\* The limit and the offset a list request asks for, defaults applied.
AskedLimit(r) == IF IsSome(r.params.limit) THEN Unwrap(r.params.limit) ELSE 100
AskedOffset(r) == IF IsSome(r.params.offset) THEN Unwrap(r.params.offset) ELSE 0

\* C11: for every offset, limit and total_count the next link has offset
\* offset + limit, or the offset of last when that would be exceeded, and the
\* prev link has offset offset - limit, or 0 when that would be negative.
C11_NextAndPrevClamped ==
    req.pc = "paged"
    => LET paging == Unwrap(req.paging_info).paging
           limit == AskedLimit(req)
           offset == AskedOffset(req)
           last == OffsetOf(paging.last)
           next == OffsetOf(paging.next)
           prev == OffsetOf(paging.prev)
       IN /\ next <= last
          /\ offset + limit <= last => next = offset + limit
          /\ offset + limit > last => next = last
          /\ prev >= 0
          /\ offset - limit >= 0 => prev = offset - limit
          /\ offset - limit < 0 => prev = 0
          /\ LimitOf(paging.next) = limit /\ LimitOf(paging.prev) = limit

\* C11 witness: 7 certificates, limit 3, offset 4: next is held at the offset
\* of last (6, not 7) and prev is 1; with offset 2 prev would be held at 0.
C11_Witness ==
    /\ req.pc = "paged"
    /\ req.op = "list_certificates"
    /\ req.total_count = 7
    /\ req.params.limit = Some(3)
    /\ req.params.offset = Some(4)
    /\ OffsetOf(Unwrap(req.paging_info).paging.next) = 6
    /\ OffsetOf(Unwrap(req.paging_info).paging.prev) = 1

PageLinks == {"first", "prev", "next", "last"}

PrimaryKey(op, t) ==
    CASE op \in {"list_certificates", "fetch_certificate"} -> t.cert.certificate_id
      [] op = "list_standards_belonging_to_org" -> t.standard.standard_id
      [] op \in {"list_assertions", "fetch_assertions"} -> t.assertion_id
      [] OTHER -> t.organization_id

KeysOf(op, rows) == [i \in 1..Len(rows) |-> PrimaryKey(op, rows[i])]

LinkKeys(link) == {link.query[i][1] : i \in 1..Len(link.query)}

\* The filters a list request applies to its query.
AppliedFilters(r) ==
    {f \in (CASE r.op = "query_factories" ->
                   {"name", "search", "city", "state_province", "country",
                    "postal_code", "expand"}
             [] r.op = "list_organizations" -> {"name", "organization_type"}
             [] r.op = "list_certificates" -> {"certifying_body_id", "factory_id"}
             [] r.op = "list_standards_belonging_to_org" -> {"organization_id"}
             [] OTHER -> {}) :
        IsSome(r.params[f])}

\* C14: the link of a list response and each of first, prev, next and last
\* name the resolved head and every filter that was applied to the query (for
\* factories name, search, city, state_province, country, postal_code and
\* expand; for organizations name and organization_type).
C14_AsStated ==
    (/\ req.pc = "done"
     /\ req.op \in ListOps
     /\ req.status = "Ok")
    => \A link \in {Unwrap(req.link)} \cup {Unwrap(req.paging)[k] : k \in PageLinks} :
          /\ "head" \in LinkKeys(link)
          /\ AppliedFilters(req) \subseteq LinkKeys(link)

FuzzyFields == {"city", "state_province", "country", "postal_code"}

\* The stored column a fuzzy field is compared with, as a nullable text.
FuzzyColumn(a, f) ==
    CASE f = "city" -> Some(a.city)
      [] f = "state_province" -> a.state_province
      [] f = "country" -> Some(a.country)
      [] f = "postal_code" -> a.postal_code

FuzzyApplied(r) == {f \in FuzzyFields : IsSome(r.params[f])}

\* The factories valid at the head of r in the database r resolved it on.
FactoriesAt(r) ==
    {o \in r.db0.organizations :
        /\ o.organization_type = "Factory"
        /\ o.start_block_num <= r.head_block_num
        /\ r.head_block_num < o.end_block_num}

\* The addresses of organization id valid at the head of r.
AddressesAt(r, id) ==
    {a \in r.db0.addresses :
        /\ a.organization_id = id
        /\ a.start_block_num <= r.head_block_num
        /\ r.head_block_num < a.end_block_num}

\* A complete factories list whose only filter is one fuzzy field, read on a
\* database that did not change what is valid at its head.
OneFuzzyFilter(r) ==
    /\ r.pc = "done"
    /\ r.op = "query_factories"
    /\ r.status = "Ok"
    /\ r.params.limit = None
    /\ r.params.name = None /\ r.params.search = None
    /\ Cardinality(FuzzyApplied(r)) = 1
    /\ HeadReached(r) \/ Undisturbed(r)

\* C15 (as amended): a fuzzy field filter includes the owner of an address
\* exactly when the similarity of the stored column and the query string is
\* strictly greater than 0.2: 0.25 is included, exactly 0.2 and 0.05 are not.
C15_AboveThreshold ==
    OneFuzzyFilter(req)
    => \A f \in FuzzyApplied(req) :
          PrimaryIds(req) =
             {o.organization_id :
                o \in {x \in FactoriesAt(req) :
                         \E a \in AddressesAt(req, x.organization_id) :
                            similarity(FuzzyColumn(a, f), Unwrap(req.params[f])) > 20}}

\* C15 witness: a factory whose city scores exactly 0.2 against the query is
\* valid at the head and the list has left it out.
C15_Witness ==
    /\ OneFuzzyFilter(req)
    /\ req.params.city = Some("sprat")
    /\ \E x \in FactoriesAt(req) :
          \E a \in AddressesAt(req, x.organization_id) :
             similarity(Some(a.city), "sprat") = 20
    /\ req.data = <<>>

\* C15 as stated: the owner is included exactly when the similarity is
\* greater than or equal to 0.2.
C15_AsStated ==
    OneFuzzyFilter(req)
    => \A f \in FuzzyApplied(req) :
          PrimaryIds(req) =
             {o.organization_id :
                o \in {x \in FactoriesAt(req) :
                         \E a \in AddressesAt(req, x.organization_id) :
                            similarity(FuzzyColumn(a, f), Unwrap(req.params[f])) >= 20}}

\* Row x is valid at head H.
InRange(x, H) == x.start_block_num <= H /\ H < x.end_block_num

\* The three ways a search term reaches organization id in database d at
\* head H: the organization's name, the name of the standard of one of its
\* certificates, its searchable address; every row involved valid at H.
NameMatch(d, H, id, term) ==
    \E o \in d.organizations :
       /\ o.organization_id = id /\ InRange(o, H)
       /\ matches(to_tsvector(o.name), plainto_tsquery(term))

StandardMatch(d, H, id, term) ==
    \E c \in d.certificates :
       /\ c.factory_id = id /\ InRange(c, H)
       /\ \E st \in d.standards :
             /\ st.standard_id = c.standard_id /\ InRange(st, H)
             /\ matches(to_tsvector(st.name), plainto_tsquery(term))

AddressMatch(d, H, id, term) ==
    \E a \in d.addresses :
       /\ a.organization_id = id /\ InRange(a, H)
       /\ matches(a.text_searchable_address_col, plainto_tsquery(term))

FuzzyMatch(d, H, id, f, q) ==
    \E a \in d.addresses :
       /\ a.organization_id = id /\ InRange(a, H)
       /\ similarity(FuzzyColumn(a, f), q) > 20

\* Filter f of request r accepts organization id on a value valid at the head.
Supported(d, r, id, f) ==
    IF f = "search"
    THEN \/ NameMatch(d, r.head_block_num, id, Unwrap(r.params[f]))
         \/ StandardMatch(d, r.head_block_num, id, Unwrap(r.params[f]))
         \/ AddressMatch(d, r.head_block_num, id, Unwrap(r.params[f]))
    ELSE FuzzyMatch(d, r.head_block_num, id, f, Unwrap(r.params[f]))

\* The search and fuzzy filters of r in the order their key sets are loaded.
KeyFilters(r) ==
    SelectSeq(<<"search", "city", "state_province", "country", "postal_code">>,
              LAMBDA f : IsSome(r.params[f]))

\* Every key of every key set rests on a value valid at the head in d.
KeySetsSupported(d, r) ==
    /\ Len(r.key_sets) = Len(KeyFilters(r))
    /\ \A i \in 1..Len(r.key_sets) :
          \A id \in r.key_sets[i] : Supported(d, r, id, KeyFilters(r)[i])

\* C16: matching is head-aware. The key sets a factories list loads hold only
\* organizations that a name, address, certificate and standard valid at the
\* resolved head match, in the database as it is when they are loaded, and
\* every factory of the response is in every key set; so a response read on a
\* database whose rows valid at the head did not change shows no factory on
\* the strength of a version not valid at the head.
C16_MatchingHeadAware ==
    /\ [][(req.pc = "keys" /\ req'.pc # "keys") => KeySetsSupported(db, req')]_vars
    /\ []((/\ req.pc = "done"
           /\ req.op = "query_factories"
           /\ req.status = "Ok")
          => /\ \A i \in 1..Len(req.key_sets) : PrimaryIds(req) \subseteq req.key_sets[i]
             /\ (HeadReached(req) \/ Undisturbed(req))
                => \A id \in PrimaryIds(req) :
                      \A i \in 1..Len(KeyFilters(req)) :
                         Supported(req.db0, req, id, KeyFilters(req)[i]))

\* C16 witness: a factory valid at the head has an earlier address version
\* that matches the filter and a current one that does not, and the list has
\* left the factory out.
C16_Witness ==
    /\ req.pc = "done"
    /\ req.op = "query_factories"
    /\ req.status = "Ok"
    /\ req.params.limit = None
    /\ HeadReached(req)
    /\ \E f \in {"search", "city"} :
          /\ KeyFilters(req) = <<f>>
          /\ \E x \in FactoriesAt(req) :
                /\ x.organization_id \notin PrimaryIds(req)
                /\ \E a \in req.db0.addresses :
                      /\ a.organization_id = x.organization_id
                      /\ ~InRange(a, req.head_block_num)
                      /\ IF f = "search"
                         THEN matches(a.text_searchable_address_col,
                                      plainto_tsquery(Unwrap(req.params.search)))
                         ELSE similarity(Some(a.city), Unwrap(req.params.city)) > 20

\* C17: with a search term, a factory valid at the head that passes the other
\* filters is in the list if and only if the term matches its own name, or
\* the name of the standard of one of its certificates, or its searchable
\* address: one match of the three is enough.
C17_SearchIsUnion ==
    (/\ req.pc = "done"
     /\ req.op = "query_factories"
     /\ req.status = "Ok"
     /\ IsSome(req.params.search)
     /\ req.params.limit = None
     /\ HeadReached(req) \/ Undisturbed(req))
    => PrimaryIds(req) =
          {o.organization_id :
             o \in {x \in FactoriesAt(req) :
                      /\ IsSome(req.params.name) => x.name = Unwrap(req.params.name)
                      /\ \A f \in FuzzyApplied(req) :
                            FuzzyMatch(req.db0, req.head_block_num, x.organization_id,
                                       f, Unwrap(req.params[f]))
                      /\ \/ NameMatch(req.db0, req.head_block_num, x.organization_id,
                                      Unwrap(req.params.search))
                         \/ StandardMatch(req.db0, req.head_block_num, x.organization_id,
                                          Unwrap(req.params.search))
                         \/ AddressMatch(req.db0, req.head_block_num, x.organization_id,
                                         Unwrap(req.params.search))}}

\* C17 witness: a factory is listed for a term that matches only the name of
\* the standard of its certificate, neither its own name nor its address.
C17_Witness ==
    /\ req.pc = "done"
    /\ req.op = "query_factories"
    /\ req.status = "Ok"
    /\ IsSome(req.params.search)
    /\ HeadReached(req)
    /\ \E id \in PrimaryIds(req) :
          /\ StandardMatch(req.db0, req.head_block_num, id, Unwrap(req.params.search))
          /\ ~NameMatch(req.db0, req.head_block_num, id, Unwrap(req.params.search))
          /\ ~AddressMatch(req.db0, req.head_block_num, id, Unwrap(req.params.search))

\* C18: when several fuzzy field filters are supplied their key sets are
\* unioned, and the union is intersected with the other filters: a factory
\* whose address matches any one of the supplied fuzzy fields, and which
\* passes the name and search filters, is listed.
C18_AsStated ==
    (/\ req.pc = "done"
     /\ req.op = "query_factories"
     /\ req.status = "Ok"
     /\ req.params.limit = None
     /\ Cardinality(FuzzyApplied(req)) > 1
     /\ HeadReached(req) \/ Undisturbed(req))
    => PrimaryIds(req) =
          {o.organization_id :
             o \in {x \in FactoriesAt(req) :
                      /\ IsSome(req.params.name) => x.name = Unwrap(req.params.name)
                      /\ IsSome(req.params.search) =>
                            Supported(req.db0, req, x.organization_id, "search")
                      /\ \E f \in FuzzyApplied(req) :
                            FuzzyMatch(req.db0, req.head_block_num, x.organization_id,
                                       f, Unwrap(req.params[f]))}}

\* The head of r was resolved.
HeadResolved(r) == IsSome(r.params.head) \/ r.db0.blocks # {}

C20_AsStated ==
    (/\ req.pc = "done"
     /\ req.op \in {"fetch_factory", "query_factories"}
     /\ req.status = "Ok")
    => \A i \in 1..Len(req.data) :
          IsSome(req.data[i].certificates) <=> req.params.expand = Some(TRUE)

\* The factory objects of a response without their certificates field.
WithoutCertificates(data) == [i \in 1..Len(data) |-> [data[i] EXCEPT !.certificates = None]]

ExpandSettings == {None, Some(TRUE), Some(FALSE)}

\* C21: expand is not a filter. A factories list and the same request (same
\* head, filters, limit and offset) with any other expand setting are
\* answered with the same status, the same factories in the same order with
\* the same directly-owned fields, and the same paging.total; the factory
\* objects differ only in having the certificates field, which they have
\* exactly with expand=true.
C21_ExpandIsNotAFilter ==
    (/\ req.pc = "done"
     /\ req.op = "query_factories"
     /\ HeadReached(req) \/ Undisturbed(req))
    => /\ \A e \in ExpandSettings :
             \A a \in Answers("query_factories", "",
                               [req.params EXCEPT !.expand = e], req.db0) :
                /\ a.status = req.status
                /\ TotalOf(a.paging) = TotalOf(req.paging)
                /\ Len(a.data) = Len(req.data)
                /\ WithoutCertificates(a.data) = WithoutCertificates(req.data)
                /\ \A i \in 1..Len(a.data) : IsSome(a.data[i].certificates) <=> e = Some(TRUE)
       /\ \A i \in 1..Len(req.data) :
             IsSome(req.data[i].certificates) <=> req.params.expand = Some(TRUE)

\* C21 witness: an expanded list shows two factories, one with a certificate
\* and one with none.
C21_Witness ==
    /\ req.pc = "done"
    /\ req.op = "query_factories"
    /\ req.status = "Ok"
    /\ req.params.expand = Some(TRUE)
    /\ Len(req.data) = 2
    /\ \E i, j \in 1..2 :
          /\ req.data[i].certificates # Some({})
          /\ req.data[j].certificates = Some({})

\* The connections checked out of the pool.
CheckedOut == UNION {SeqSet(threads[w].conn) : w \in Workers}

\* The request of a thread as the guard rejects it: nothing of it has run.
Rejected(r) ==
    Fail([Blank(r.op, r.id, r.params) EXCEPT !.pc = "guard"], "ServiceUnavailable")

\* C22: a request whose guard finds the pool exhausted is answered
\* ServiceUnavailable and nothing else: it takes no connection, none of its
\* handler's queries has run or runs later (a handler runs only on a thread
\* that holds a connection), and the only thing that follows is the sending
\* of that answer; the request is not tried again.
C22_ExhaustionIsReported ==
    /\ [][\A w \in Workers :
            (/\ threads[w].request.pc = "guard"
             /\ pool = {}
             /\ threads'[w] # threads[w])
            => /\ threads'[w].request = Rejected(threads[w].request)
               /\ threads'[w].conn = None
               /\ pool' = pool]_vars
    /\ [][\A w \in Workers :
            (threads[w].request.status = "ServiceUnavailable" /\ threads'[w] # threads[w])
            => threads'[w] = IdleThread]_vars
    /\ [](\A w \in Workers :
            /\ threads[w].request.status = "ServiceUnavailable"
                 => threads[w] = [IdleThread EXCEPT !.request = Rejected(threads[w].request)]
            /\ InHandler(threads[w].request) => IsSome(threads[w].conn))

\* C22 witness: a request is rejected while two others are in their handlers
\* with the two connections of the pool.
C22_Witness ==
    \E w \in Workers :
        /\ threads[w].request.status = "ServiceUnavailable"
        /\ pool = {}
        /\ \A v \in Workers \ {w} : InHandler(threads[v].request) /\ IsSome(threads[v].conn)

\* C23: a request holds a connection exactly while it is in its handler, and
\* then one that no other request holds; a connection is either idle in the
\* pool or checked out by a request, so at most PoolSize are checked out and
\* a request that has ended, with a response or with an error, has given its
\* connection back; a step takes at most one connection from the pool, and
\* only the guard of a request that holds none takes one.
C23_OneConnectionPerRequest ==
    /\ [](/\ \A w \in Workers : InHandler(threads[w].request) <=> IsSome(threads[w].conn)
          /\ \A w, v \in Workers :
                (w # v /\ IsSome(threads[w].conn)) => threads[w].conn # threads[v].conn
          /\ CheckedOut \cap pool = {}
          /\ CheckedOut \cup pool = Connections
          /\ Cardinality(CheckedOut) <= PoolSize)
    /\ [][pool' # pool /\ pool' \subseteq pool
          => \E w \in Workers :
                /\ threads[w].request.pc = "guard"
                /\ threads[w].conn = None
                /\ IsSome(threads'[w].conn)
                /\ pool' = pool \ {Unwrap(threads'[w].conn)}]_vars

\* C23 witness: two requests are in their handlers with the two connections
\* while a third has ended with an error and holds none.
C23_Witness ==
    \E w \in Workers :
        /\ threads[w].request.pc = "done"
        /\ threads[w].request.status = "NotFound"
        /\ threads[w].conn = None
        /\ pool = {}
        /\ \A v \in Workers \ {w} : InHandler(threads[v].request) /\ IsSome(threads[v].conn)
        /\ Cardinality(CheckedOut) = PoolSize

\* C24: requests served at the same time share no file or other value that
\* one of them writes, so a response does not depend on the other requests:
\* the CSV export answers with the rows that the request itself loaded.
C24_AsStated ==
    \A w \in Workers :
        (/\ threads[w].request.op = "get_factories"
         /\ threads[w].request.pc = "done"
         /\ threads[w].request.status = "Ok")
        => threads[w].request.data = <<threads[w].rows>>

\* C25: a failure of a sub-query ends the request at once with a typed
\* error: a step of a handler that does not have the outcome of its queries
\* succeeding is the last step of the request and leaves it with an error
\* status, no result standing in for the failed query.
C25_AsStated ==
    [][(/\ HasQuery(req)
        /\ req' # req
        /\ req' \notin Step(req, db))
       => /\ req'.pc = "done"
          /\ req'.status \in {"InternalError", "NotFound", "BadRequest"}]_vars

\* C26: every list endpoint returns its page in ascending order of the
\* natural key of its primary rows, which is what makes the pages of one
\* list at offsets 0, limit, 2*limit, ... disjoint and complete.
C26_AsStated ==
    (/\ req.pc = "done"
     /\ req.op \in ListOps
     /\ req.status = "Ok")
    => \A i, j \in 1..Len(req.primary) :
          i < j => KeyRank(PrimaryKey(req.op, req.primary[i]))
                      <= KeyRank(PrimaryKey(req.op, req.primary[j]))

\* The rows of a table valid at head H in database d that belong to owner id.
OwnedAt(rows, H, id) == {x \in AtHead(rows, H) : x.organization_id = id}

\* The dependents of the i-th object of a factories or organizations list,
\* read from the database the request resolved its head against.
DependentsByOwner(r, i, address_when_none) ==
    LET o == r.primary[i]
        id == o.organization_id
        H == r.head_block_num
        d == r.db0
        obj == r.data[i]
        addresses == OwnedAt(d.addresses, H, id)
        assertions == {a \in AtHead(d.assertions, H) : a.object_id = id}
        certs == JoinCertificates(d, H, {c \in AtHead(d.certificates, H) : c.factory_id = id})
    IN /\ obj.contacts = {ApiContact(c) : c \in OwnedAt(d.contacts, H, id)}
       /\ obj.authorizations = {ApiAuthorization(a) : a \in OwnedAt(d.authorizations, H, id)}
       /\ o.organization_type = "Factory" =>
             /\ IF addresses = {}
                THEN obj.address = address_when_none
                ELSE \E a \in addresses : obj.address = ApiAddress(a)
             /\ IF assertions = {}
                THEN obj.assertion_id = None
                ELSE \E a \in assertions : obj.assertion_id = Some(a.assertion_id)
             /\ IF r.op = "query_factories" /\ r.params.expand = Some(TRUE)
                THEN obj.certificates =
                        Some({ApiCertificate(t.cert, o, t.std[1], t.org[1], None) : t \in certs})
                ELSE obj.certificates = None

AssembledList(r) ==
    /\ r.pc = "done"
    /\ r.op \in {"query_factories", "list_organizations"}
    /\ r.status = "Ok"
    /\ HeadReached(r) \/ Undisturbed(r)

C28_AsStated ==
    (/\ req.pc = "done"
     /\ req.op = "fetch_factory"
     /\ req.status = "Ok"
     /\ HeadReached(req) \/ Undisturbed(req))
    => \A a \in Answers("query_factories", "",
                        [NoParams EXCEPT !.head = Some(req.head_block_num),
                                         !.expand = req.params.expand],
                        req.db0) :
          /\ a.status = "Ok"
          /\ \E i \in 1..Len(a.data) : a.data[i] = req.data[1]

\* The database without its certificate rows.
NoCertificates(d) == [d EXCEPT !.certificates = {}]

\* C29: a factory fetch or list without expand (and without a search term,
\* which looks at certificates by design) has the outcome it would have if
\* the ledger held no certificate at all: same status, same data.
C29_AsStated ==
    (/\ req.pc = "done"
     /\ req.op \in {"fetch_factory", "query_factories"}
     /\ req.params.expand = None
     /\ req.params.search = None
     /\ HeadReached(req) \/ Undisturbed(req))
    => \A a \in Answers(req.op, req.id, req.params, NoCertificates(req.db0)) :
          /\ a.status = req.status
          /\ a.data = req.data

\* C30: in a list response each natural key appears at most once, also when
\* several assertions valid at the head are made on the same object, and the
\* response has no more entries than paging.total says there are rows.
C30_AsStated ==
    (/\ req.pc = "done"
     /\ req.op \in ListOps
     /\ req.status = "Ok"
     /\ HeadReached(req) \/ Undisturbed(req))
    => /\ \A i, j \in 1..Len(req.data) :
             i # j => PrimaryKey(req.op, req.primary[i]) # PrimaryKey(req.op, req.primary[j])
       /\ Len(req.data) <= TotalOf(req.paging)

====
